---- MODULE Spec2Model ----
(***************************************************************************)
(* The tabular data accessor of taipy.gui (pandas_data_accessor.py):       *)
(* get_data in paged and alldata mode (filter, aggregate, window, sort,    *)
(* decimator merge), to_csv, and the row mutations on_edit / on_delete /   *)
(* on_add, also through the numpy accessor (numpy_data_accessor.py) and    *)
(* its lazily looked up delegate (pandas_based_data_accessor.py); the      *)
(* adapter registry (_adapter.py); the column descriptor builder and the   *)
(* file watchdog handler of the renderers (_renderers/utils.py).           *)
(*                                                                         *)
(* A string is a sequence of one-character strings, so that parsing, case  *)
(* folding and pattern matching are computed character by character.  A    *)
(* table is a sequence of rows; a row holds its label in the DataFrame     *)
(* index (idx) and its cells in the columns "name" (object dtype), "k"     *)
(* (int64) and "d" (datetime64[ns], written as the ordinal yyyymmdd); na    *)
(* is the set of its columns whose cell is missing (NaN / NaT).            *)
(* Row positions are 0-based as in the code; TLA+ sequences are 1-based.   *)
(***************************************************************************)
EXTENDS Integers, Sequences, FiniteSets, TLC

VARIABLES
    df,       \* the caller's table
    payload,  \* the payload of the request
    op,       \* "request" while a get_data call is pending, else the last call
    ret,      \* the "value" of the last get_data response
    err,      \* the exception that left the last call ("" when it returned)
    warns,    \* the warnings the last call recorded, by stage
    win,      \* the locals start and end of the last get_data call
    old,      \* the table before the last call
    ties,     \* the order argsort leaves equal values in
    cols,     \* the column names of the caller's table
    kind,     \* the container type of the caller's value
    given,    \* the container type of the value handed to the last mutation
    calls,    \* the number of calls made on the accessor
    nlevels,  \* the number of levels of the column headers of the caller's table
    has_arrow_module,  \* the module flag _has_arrow_module: pyarrow was found
    accessor_instance, \* _PandasBasedDataAccessor.__accessor_instance
    lookups,  \* the number of lookups of the delegate made so far
    pc,       \* where each caller of the pandas-based accessor stands
    method,   \* the method of the pandas-based accessor each caller is in
    adapter_for_type,  \* _Adapter.__adapter_for_type
    type_for_variable, \* _Adapter.__type_for_variable
    type_name, \* the local type_name of _get_unique_type
    next_index, \* the local index of _get_unique_type
    now,      \* the clock, in ticks
    last_modified, \* FileWatchdogHandler._last_modified
    contents, \* the times of the set_content calls made on the renderer
    args,     \* the arguments of the last call on the adapter, the column
              \* descriptor builder or the watchdog handler
    result    \* what that call returned

\* the pandas accessor, the table it serves and the record of its last call
accessorvars == <<df, payload, op, ret, err, warns, win, old, ties, cols, kind, given, calls,
                  nlevels, has_arrow_module>>
\* the same without the name of the last call
accessorvars_but_op == <<df, payload, ret, err, warns, win, old, ties, cols, kind, given, calls,
                         nlevels, has_arrow_module>>
delegatevars == <<accessor_instance, lookups, pc, method>>
adaptervars == <<adapter_for_type, type_for_variable, type_name, next_index>>
watchvars == <<now, last_modified, contents>>

\* the state outside the pandas accessor and the table it serves
beside == <<delegatevars, adaptervars, watchvars, args, result>>

vars == <<df, payload, op, ret, err, warns, win, old, ties, cols, kind, given, calls,
          nlevels, has_arrow_module, beside>>

\* the callers of the pandas-based accessor
Threads == {"t1", "t2"}

\* the field before the first lookup, and a result not there
None == "None"

\* no caller on the pandas-based accessor, an empty adapter registry, a
\* handler not built
BesideIdle ==
    /\ accessor_instance = None /\ lookups = 0
    /\ pc = [t \in Threads |-> "idle"] /\ method = [t \in Threads |-> ""]
    /\ adapter_for_type = <<>> /\ type_for_variable = <<>>
    /\ type_name = <<>> /\ next_index = 0
    /\ now = 0 /\ last_modified = 0 /\ contents = <<>>
    /\ args = None /\ result = None

\* ------------------------------------------------------------------ bounds
\* longest table of an initial state
MaxRows == 3
\* largest integer given as start, end or row locator is MaxRows + Beyond
Beyond == 1
\* longest run of mutations
MaxCalls == 3

\* ----------------------------------------------------------------- strings
UpperAlpha == <<"A", "B", "C", "D", "E", "F", "G", "H", "I", "J", "K", "L", "M",
                "N", "O", "P", "Q", "R", "S", "T", "U", "V", "W", "X", "Y", "Z">>
LowerAlpha == <<"a", "b", "c", "d", "e", "f", "g", "h", "i", "j", "k", "l", "m",
                "n", "o", "p", "q", "r", "s", "t", "u", "v", "w", "x", "y", "z">>

\* str.lower() on one character
LowerChar(c) ==
    IF \E i \in 1..26 : UpperAlpha[i] = c
    THEN LowerAlpha[CHOOSE i \in 1..26 : UpperAlpha[i] = c]
    ELSE c

\* str.lower()
Lower(s) == [i \in 1..Len(s) |-> LowerChar(s[i])]

DigitChars == <<"0", "1", "2", "3", "4", "5", "6", "7", "8", "9">>

IsDigit(c) == \E i \in 1..10 : DigitChars[i] = c

DigitVal(c) == (CHOOSE i \in 1..10 : DigitChars[i] = c) - 1

RECURSIVE DigitsVal(_)
\* value of a non-empty sequence of decimal digits
DigitsVal(s) ==
    IF Len(s) = 0 THEN 0
    ELSE 10 * DigitsVal(SubSeq(s, 1, Len(s) - 1)) + DigitVal(s[Len(s)])

AllDigits(s) == Len(s) > 0 /\ \A i \in 1..Len(s) : IsDigit(s[i])

\* int(s, base=10) on a string of the model's alphabet: an optional sign and
\* at least one decimal digit; anything else raises ValueError (ok = FALSE)
ParseInt(s) ==
    IF Len(s) > 0 /\ s[1] \in {"+", "-"}
    THEN LET body == SubSeq(s, 2, Len(s)) IN
         IF AllDigits(body)
         THEN [ok |-> TRUE, v |-> IF s[1] = "-" THEN 0 - DigitsVal(body) ELSE DigitsVal(body)]
         ELSE [ok |-> FALSE, v |-> 0]
    ELSE IF AllDigits(s) THEN [ok |-> TRUE, v |-> DigitsVal(s)]
         ELSE [ok |-> FALSE, v |-> 0]

\* ------------------------------------------------------------------ values
\* a JSON value of a payload: missing key, integer, or string
Absent == [t |-> "absent", v |-> 0, s |-> <<>>]
IntV(n) == [t |-> "int", v |-> n, s |-> <<>>]
StrV(str) == [t |-> "str", v |-> 0, s |-> str]

\* ------------------------------------------------------------------ tables
Columns == {"name", "k", "d"}

\* the columns in the order of the frame
ColumnList == <<"name", "k", "d">>

\* DataFrame.dtypes of the modelled table (get_cols_description lower-cases the
\* dtype name); "_tp_index" is the index column get_data adds in paged mode
ColType(c) ==
    CASE c = "name" -> "object"
      [] c = "k" -> "int64"
      [] c = "d" -> "datetime64[ns]"
      [] c = "_tp_index" -> "int64"
      [] OTHER -> ""

RowVals ==
    { [name |-> <<"A", "b">>, k |-> 1, d |-> 19700102],
      [name |-> <<"a", "b">>, k |-> 1, d |-> 19700101],
      [name |-> <<"b", ".">>, k |-> 0, d |-> 19700102] }

\* a DataFrame built from the given cells has the default RangeIndex 0..n-1
MkTable(f) ==
    [i \in 1..Len(f) |->
        [idx |-> i - 1, name |-> f[i].name, k |-> f[i].k, d |-> f[i].d, na |-> {}]]

Tables == UNION { { MkTable(f) : f \in [1..n -> RowVals] } : n \in 0..MaxRows }

\* --------------------------------------------------------- paging (360-388)
\* payload "start": an int is taken as it is (a missing key is 0); anything
\* else goes through int(str(...), base=10), and a failure warns and gives 0
GetStart(p) ==
    IF p.start.t \in {"absent", "int"}
    THEN [v |-> p.start.v, warn |-> FALSE]
    ELSE LET r == ParseInt(p.start.s) IN
         IF r.ok THEN [v |-> r.v, warn |-> FALSE] ELSE [v |-> 0, warn |-> TRUE]

\* payload "end": a missing key is -1; a parse failure gives -1 and no warning
GetEnd(p) ==
    IF p.end.t = "absent" THEN [v |-> 0 - 1, warn |-> FALSE]
    ELSE IF p.end.t = "int" THEN [v |-> p.end.v, warn |-> FALSE]
    ELSE LET r == ParseInt(p.end.s) IN
         IF r.ok THEN [v |-> r.v, warn |-> FALSE] ELSE [v |-> 0 - 1, warn |-> FALSE]

ClampStart(start, rowcount) ==
    IF start < 0 \/ start >= rowcount THEN 0 ELSE start

\* ClampEnd with the upper test off by one
ClampEnd_OffByOne(end, rowcount) ==
    IF end < 0 \/ end > rowcount THEN rowcount - 1 ELSE end

ClampEnd(end, rowcount) ==
    IF end < 0 \/ end >= rowcount THEN rowcount - 1 ELSE end

\* Mirror with the new end one position too far
Mirror_OnePastTheEnd(start, end, rowcount) ==
    LET diff == end - start
        e1 == rowcount - start
        e2 == IF e1 < 0 THEN rowcount - 1 ELSE e1
        s1 == e2 - diff
        s2 == IF s1 < 0 THEN 0 ELSE s1
    IN [start |-> s2, end |-> e2]

\* the reverse branch: the window [start, end] mirrored around the table's end
Mirror(start, end, rowcount) ==
    LET diff == end - start
        e1 == rowcount - 1 - start
        e2 == IF e1 < 0 THEN rowcount - 1 ELSE e1
        s1 == e2 - diff
        s2 == IF s1 < 0 THEN 0 ELSE s1
    IN [start |-> s2, end |-> e2]

\* start and end as they stand when the slice is built (line 389)
Window(p, rowcount) ==
    LET s == ClampStart(GetStart(p).v, rowcount)
        e == ClampEnd(GetEnd(p).v, rowcount)
    IN IF p.reverse THEN Mirror(s, e, rowcount) ELSE [start |-> s, end |-> e]

\* ----------------------------------------------------------- sort (389-406)
\* Python's seq[start:stop]: a negative bound counts from the end
PyBound(i, n) == IF i < 0 THEN (IF i + n < 0 THEN 0 ELSE i + n) ELSE (IF i > n THEN n ELSE i)

PySlice(seq, start, stop) ==
    LET a == PyBound(start, Len(seq))
        b == PyBound(stop, Len(seq))
    IN IF b <= a THEN <<>> ELSE SubSeq(seq, a + 1, b)

\* code-point order of the characters of the model's alphabet
Ascii == <<"+", "-", ".">> \o DigitChars \o UpperAlpha \o LowerAlpha

CharCode(c) == CHOOSE i \in 1..Len(Ascii) : Ascii[i] = c

RECURSIVE StrLess(_, _)
StrLess(a, b) ==
    IF Len(b) = 0 THEN FALSE
    ELSE IF Len(a) = 0 THEN TRUE
    ELSE IF a[1] = b[1] THEN StrLess(Tail(a), Tail(b))
    ELSE CharCode(a[1]) < CharCode(b[1])

\* the cell of a row in a column of the table with its index column
Cell(r, col) ==
    CASE col = "k" -> r.k
      [] col = "d" -> r.d
      [] col = "_tp_index" -> r.idx
      [] col = "name" -> r.name

\* df[col].values compared as numpy compares them
CellLess(r1, r2, col) ==
    CASE col = "k" -> r1.k < r2.k
      [] col = "d" -> r1.d < r2.d
      [] col = "_tp_index" -> r1.idx < r2.idx
      [] col = "name" -> StrLess(r1.name, r2.name)
      [] OTHER -> FALSE

\* __get_column_names(df, name) finds a column (of the table with its index column)
Resolves(col) == col \in Columns \cup {"_tp_index"}

\* values.argsort(axis=0): the 0-based positions in ascending order of the
\* column.  The default sort kind is not stable: the order of equal values is
\* the implementation's, the same on every call; ties says whether they stay
\* in position order ("kept") or come out in the opposite order ("swapped")
TieOrders == {"kept", "swapped"}

ArgSort(t, col) ==
    LET before(i, j) ==
            \/ CellLess(t[i], t[j], col)
            \/ ~CellLess(t[j], t[i], col) /\ (IF ties = "kept" THEN i < j ELSE i > j)
        rank(i) == 1 + Cardinality({j \in 1..Len(t) : before(j, i)})
    IN [r \in 1..Len(t) |-> (CHOOSE i \in 1..Len(t) : rank(i) = r) - 1]

Reverse(seq) == [i \in 1..Len(seq) |-> seq[Len(seq) + 1 - i]]

\* dataframe.iloc[new_indexes] (line 96)
ILoc(t, positions) == [i \in 1..Len(positions) |-> t[positions[i] + 1]]

\* NewIndexes with the sort applied to the rows of the window only
NewIndexes_SortsTheWindow(t, p, start, end) ==
    LET plain == PySlice([i \in 1..Len(t) |-> i - 1], start, end + 1) IN
    IF p.orderby # "" /\ Resolves(p.orderby)
    THEN LET asc == ArgSort(ILoc(t, plain), p.orderby)
             perm == IF p.sort = "desc" THEN Reverse(asc) ELSE asc
         IN [i \in 1..Len(perm) |-> plain[perm[i] + 1]]
    ELSE plain

\* the positions handed to iloc: the window of the sort permutation, or the
\* plain slice when there is no orderby or the column does not resolve
NewIndexes(t, p, start, end) ==
    IF p.orderby # "" /\ Resolves(p.orderby)
    THEN LET asc == ArgSort(t, p.orderby)
             perm == IF p.sort = "desc" THEN Reverse(asc) ELSE asc
         IN PySlice(perm, start, end + 1)
    ELSE PySlice([i \in 1..Len(t) |-> i - 1], start, end + 1)

SortWarns(p) == p.orderby # "" /\ ~Resolves(p.orderby)

\* -------------------------------------------------------- filters (290-331)
\* a filter clause: a mapping with col, value, action and an optional matchCase
\* ("absent" when the key is missing), or something that is not a mapping
Clause(col, action, val, mc) == [map |-> TRUE, col |-> col, action |-> action, val |-> val, mc |-> mc]
NotAMapping == [map |-> FALSE, col |-> "", action |-> "", val |-> Absent, mc |-> "absent"]

\* MatchCase with the flag defaulting to true
MatchCase_DefaultsToTrue(fd) == fd.mc # "false"

\* fd.get("matchCase", False) is not False
MatchCase(fd) == fd.mc = "true"

IsDateCol(col) == ColType(col) = "datetime64[ns]"

DaysIn(y, m) ==
    IF m = 2 THEN (IF y % 4 = 0 /\ (y % 100 # 0 \/ y % 400 = 0) THEN 29 ELSE 28)
    ELSE IF m \in {4, 6, 9, 11} THEN 30 ELSE 31

\* datetime.fromisoformat on a date-only string YYYY-MM-DD; the date is written
\* as the ordinal yyyymmdd, which keeps equality and order
FromIsoFormat(s) ==
    IF Len(s) = 10 /\ s[5] = "-" /\ s[8] = "-"
       /\ AllDigits(SubSeq(s, 1, 4)) /\ AllDigits(SubSeq(s, 6, 7)) /\ AllDigits(SubSeq(s, 9, 10))
    THEN LET y == DigitsVal(SubSeq(s, 1, 4))
             m == DigitsVal(SubSeq(s, 6, 7))
             d == DigitsVal(SubSeq(s, 9, 10))
         IN IF y >= 1 /\ m \in 1..12 /\ d \in 1..DaysIn(y, m)
            THEN [ok |-> TRUE, v |-> y * 10000 + m * 100 + d]
            ELSE [ok |-> FALSE, v |-> 0]
    ELSE [ok |-> FALSE, v |-> 0]

\* val[:-1]
DropLast(s) == IF Len(s) = 0 THEN s ELSE SubSeq(s, 1, Len(s) - 1)

\* the exception the loop body raises for a clause, outside the try block:
\* .get on something that is not a mapping, or fromisoformat on a bad date
ClauseRaises(fd) ==
    IF ~fd.map THEN "AttributeError"
    ELSE IF fd.val.t = "str" /\ IsDateCol(fd.col) /\ ~FromIsoFormat(DropLast(fd.val.s)).ok
         THEN "ValueError"
         ELSE ""

\* the term a clause adds to the query string: col_expr (with .str.lower() when
\* lower), then .str.contains(val, case) when contains, else " action val"
Term(fd) ==
    LET isStr == fd.val.t = "str"
        isDate == isStr /\ IsDateCol(fd.col)
        fold == isStr /\ ~isDate /\ ~MatchCase(fd)
    IN [col |-> fd.col,
        lower |-> fold /\ fd.action # "contains",
        contains |-> isStr /\ fd.action = "contains",
        case |-> MatchCase(fd),
        action |-> fd.action,
        val |-> IF isDate THEN [t |-> "date", v |-> FromIsoFormat(DropLast(fd.val.s)).v, s |-> <<>>]
                ELSE IF fold THEN StrV(Lower(fd.val.s))
                ELSE fd.val]

\* re.search(pat, s) for a pattern of literal characters and ".", which
\* matches any character (Series.str.contains takes its pattern as a regex)
RegexSearch(pat, s, case) ==
    LET same(a, b) == IF case THEN a = b ELSE LowerChar(a) = LowerChar(b)
    IN \E off \in 0..(Len(s) - Len(pat)) :
          \A j \in 1..Len(pat) : pat[j] = "." \/ same(pat[j], s[off + j])

CompareOps == {"==", "!=", "<", "<=", ">", ">="}

\* the kind of value a column holds or a term compares with
ColKind(col) ==
    IF ColType(col) = "object" THEN "str"
    ELSE IF IsDateCol(col) THEN "date" ELSE "int"

\* df.query evaluates the term without raising: the column exists, the .str
\* accessor is used on a string column only, the operator is one of the
\* query language, and an ordering compares values of one kind
TermOk(tm) ==
    /\ Resolves(tm.col)
    /\ IF tm.contains THEN ColKind(tm.col) = "str"
       ELSE /\ tm.action \in CompareOps
            /\ tm.lower => ColKind(tm.col) = "str"
            /\ tm.action \in {"<", "<=", ">", ">="} => ColKind(tm.col) = tm.val.t

TermHolds(tm, r) ==
    IF tm.contains THEN RegexSearch(tm.val.s, r.name, tm.case)
    ELSE IF ColKind(tm.col) # tm.val.t THEN tm.action = "!="
    ELSE LET left == IF tm.lower THEN Lower(r.name) ELSE Cell(r, tm.col)
             right == IF tm.val.t = "str" THEN tm.val.s ELSE tm.val.v
             lt == IF tm.val.t = "str" THEN StrLess(left, right) ELSE left < right
             eq == left = right
         IN CASE tm.action = "==" -> eq
              [] tm.action = "!=" -> ~eq
              [] tm.action = "<" -> lt
              [] tm.action = "<=" -> lt \/ eq
              [] tm.action = ">" -> ~lt /\ ~eq
              [] tm.action = ">=" -> ~lt

\* the filter step: building the query may raise; evaluating it is guarded by
\* the try block, which warns and keeps the table when the query fails
FilterStep(t, filters) ==
    IF \E i \in 1..Len(filters) : ClauseRaises(filters[i]) # ""
    THEN [df |-> t, warn |-> FALSE,
          err |-> ClauseRaises(filters[CHOOSE i \in 1..Len(filters) :
                       /\ ClauseRaises(filters[i]) # ""
                       /\ \A j \in 1..(i - 1) : ClauseRaises(filters[j]) = ""])]
    ELSE IF \A i \in 1..Len(filters) : TermOk(Term(filters[i]))
         THEN [df |-> SelectSeq(t, LAMBDA r : \A i \in 1..Len(filters) : TermHolds(Term(filters[i]), r)),
               warn |-> FALSE, err |-> ""]
         ELSE [df |-> t, warn |-> TRUE, err |-> ""]

\* ------------------------------------------------------ aggregation (334-355)
\* groupby(aggregates).agg(...) with every column reduced by "first": one row
\* per distinct key, keys ascending, holding the first row of each group
GroupFirst(t, col) ==
    LET firsts == {i \in 1..Len(t) : \A j \in 1..(i - 1) : Cell(t[j], col) # Cell(t[i], col)}
        rank(i) == 1 + Cardinality({j \in firsts : CellLess(t[j], t[i], col)})
    IN [r \in 1..Cardinality(firsts) |-> t[CHOOSE i \in firsts : rank(i) = r]]

\* __AGGREGATE_FUNCTIONS
AggregateFunctions == {"count", "sum", "mean", "median", "min", "max", "std", "first", "last"}

\* the functions the application has registered under a name
UserFunctions == {"latest"}

\* Gui._get_user_function: the callable registered under the name, if any
GetUserFunction(v) == [callable |-> v \in UserFunctions, name |-> v]

\* applies_with_fn (338-343): the entries of applies, each with its column
\* resolved (col is "" for None) and its function, a built-in name or what the
\* lookup gave
AppliesWithFn(p) ==
    [i \in 1..Len(p.applied) |->
        [col |-> IF Resolves(p.applied[i][1]) THEN p.applied[i][1] ELSE "",
         builtin |-> p.applied[i][2] \in AggregateFunctions,
         fn |-> IF p.applied[i][2] \in AggregateFunctions
                THEN [callable |-> FALSE, name |-> p.applied[i][2]]
                ELSE GetUserFunction(p.applied[i][2])]]

\* agg raises for an entry whose column is None or whose function is neither
\* a built-in name nor a callable
AggRaises(fns) ==
    \E i \in 1..Len(fns) : fns[i].col = "" \/ (~fns[i].builtin /\ ~fns[i].fn.callable)

\* the d cells of the rows of t with the key of row r, in the order of t
GroupDates(t, col, r) ==
    LET g == SelectSeq(t, LAMBDA q : Cell(q, col) = Cell(r, col)) IN
    [i \in 1..Len(g) |-> g[i].d]

\* the reduction of the cells xs of one group: "max" is the built-in, "latest"
\* the registered callable (the last cell), and "first" the default
Reduce(name, xs) ==
    CASE name = "max" -> CHOOSE x \in {xs[i] : i \in 1..Len(xs)} : \A i \in 1..Len(xs) : xs[i] <= x
      [] name = "latest" -> xs[Len(xs)]
      [] OTHER -> xs[1]

\* the function the column "d" is reduced by: its entry in applies, else "first"
DateFunction(fns) ==
    LET hits == {i \in 1..Len(fns) : fns[i].col = "d"} IN
    IF hits = {} THEN "first" ELSE fns[CHOOSE i \in hits : \A j \in hits : j <= i].fn.name

\* groupby(col).agg(applies_with_fn): the first row of each group, its d cell
\* reduced by the function applies names for it
GroupAgg(t, col, fns) ==
    LET firsts == GroupFirst(t, col) IN
    [i \in 1..Len(firsts) |->
        [firsts[i] EXCEPT !.d = Reduce(DateFunction(fns), GroupDates(t, col, firsts[i]))]]

\* Aggregate replacing the table although the aggregation raised
Aggregate_KeepsTheGroups(t, p) ==
    IF Len(p.aggregates) > 0 /\ p.applies
    THEN IF Resolves(p.aggregates[1]) /\ ~AggRaises(AppliesWithFn(p))
         THEN [df |-> GroupAgg(t, p.aggregates[1], AppliesWithFn(p)), warn |-> FALSE]
         ELSE [df |-> IF Resolves(p.aggregates[1]) THEN GroupFirst(t, p.aggregates[1]) ELSE t,
               warn |-> TRUE]
    ELSE [df |-> t, warn |-> FALSE]

\* runs when aggregates is a non-empty list and applies is a dict; a group-by
\* column that does not resolve raises and so does agg on a bad entry of
\* applies: the exception is caught and warned about, and df is not assigned
Aggregate(t, p) ==
    IF Len(p.aggregates) > 0 /\ p.applies
    THEN IF Resolves(p.aggregates[1]) /\ ~AggRaises(AppliesWithFn(p))
         THEN [df |-> GroupAgg(t, p.aggregates[1], AppliesWithFn(p)), warn |-> FALSE]
         ELSE [df |-> t, warn |-> TRUE]
    ELSE [df |-> t, warn |-> FALSE]

\* ------------------------------------------------ decimator merge (445-496)
\* a decimator that is not applied, or a chart spec without one
NoDecimator == ""

\* Decimator._on_decimate: the table the decimator instance of spec s hands
\* back holds the x and y columns of the rows it keeps (given by position),
\* the cells of "k" moved by s.shift where the decimator smooths them
OnDecimate(t, s) ==
    LET kept == SelectSeq([i \in 1..Len(t) |-> [pos |-> i - 1, row |-> t[i]]],
                          LAMBDA e : e.pos \in s.keep)
    IN [cols |-> <<s.x, s.y>>,
        df |-> [i \in 1..Len(kept) |->
                  [idx |-> kept[i].row.idx,
                   name |-> IF "name" \in {s.x, s.y} THEN kept[i].row.name ELSE <<>>,
                   k |-> IF "k" \in {s.x, s.y} THEN kept[i].row.k + s.shift ELSE 0,
                   d |-> IF "d" \in {s.x, s.y} THEN kept[i].row.d ELSE 0,
                   na |-> kept[i].row.na \cap {s.x, s.y}]]]

\* df.copy().filter([x, y], axis=1): every row, the x and y columns
FilterColumns(t, s) ==
    [cols |-> <<s.x, s.y>>,
     df |-> [i \in 1..Len(t) |->
               [idx |-> t[i].idx,
                name |-> IF "name" \in {s.x, s.y} THEN t[i].name ELSE <<>>,
                k |-> IF "k" \in {s.x, s.y} THEN t[i].k ELSE 0,
                d |-> IF "d" \in {s.x, s.y} THEN t[i].d ELSE 0,
                na |-> t[i].na \cap {s.x, s.y}]]]

\* decimated_dfs (449-476): one table per entry of decimators that is not
\* None, in list order
DecimatedDfs(t, specs) ==
    LET live == SelectSeq(specs, LAMBDA s : ~s.none) IN
    [i \in 1..Len(live) |->
        IF live[i].decimator = NoDecimator THEN FilterColumns(t, live[i]) ELSE OnDecimate(t, live[i])]

RECURSIVE Distinct(_)
\* the elements of a sequence in the order of their first occurrence
Distinct(seq) ==
    IF seq = <<>> THEN <<>>
    ELSE LET front == Distinct(SubSeq(seq, 1, Len(seq) - 1)) IN
         IF \E i \in 1..Len(front) : front[i] = seq[Len(seq)] THEN front ELSE Append(front, seq[Len(seq)])

RECURSIVE LabelSeq(_)
\* the labels of the tables of a list, table after table
LabelSeq(outs) ==
    IF outs = <<>> THEN <<>>
    ELSE LET o == outs[Len(outs)] IN
         LabelSeq(SubSeq(outs, 1, Len(outs) - 1)) \o [i \in 1..Len(o.df) |-> o.df[i].idx]

RECURSIVE ColumnSeq(_)
\* decimated_columns (480-482): the column names of the tables, table after
\* table
ColumnSeq(outs) ==
    IF outs = <<>> THEN <<>>
    ELSE ColumnSeq(SubSeq(outs, 1, Len(outs) - 1)) \o outs[Len(outs)].cols

\* the names a sequence of column names holds
Names(cs) == {cs[i] : i \in 1..Len(cs)}

\* the outputs whose column c holds a value in the row labelled l
Having(outs, l, c) ==
    {i \in 1..Len(outs) :
        c \in Names(outs[i].cols) /\ \E j \in 1..Len(outs[i].df) : outs[i].df[j].idx = l /\ c \notin outs[i].df[j].na}

\* the row labelled l of output i
RowAt(outs, i, l) == outs[i].df[CHOOSE j \in 1..Len(outs[i].df) : outs[i].df[j].idx = l]

\* the combined cell taken from the last output that holds a value
Source_LastWins(outs, l, c) ==
    LET h == Having(outs, l, c) IN CHOOSE i \in h : \A j \in h : j <= i

\* bfill(axis=1).iloc[:, 0] over the columns named c: the value of the first
\* of them, left to right, that is not missing
Source(outs, l, c) ==
    LET h == Having(outs, l, c) IN CHOOSE i \in h : \A j \in h : i <= j

\* lines 478-494: pd.concat(axis=1) aligns the tables on the row labels; the
\* columns of one name are combined and the duplicates dropped
MergeDecimated(outs) ==
    LET labels == Distinct(LabelSeq(outs))
        cs == Distinct(ColumnSeq(outs))
    IN [cols |-> cs,
        df |-> [n \in 1..Len(labels) |->
                  LET l == labels[n] IN
                  [idx |-> l,
                   name |-> IF Having(outs, l, "name") = {} THEN <<>>
                            ELSE RowAt(outs, Source(outs, l, "name"), l).name,
                   k |-> IF Having(outs, l, "k") = {} THEN 0
                         ELSE RowAt(outs, Source(outs, l, "k"), l).k,
                   d |-> IF Having(outs, l, "d") = {} THEN 0
                         ELSE RowAt(outs, Source(outs, l, "d"), l).d,
                   na |-> {c \in Names(cs) : Having(outs, l, c) = {}}]]]

\* the table of an alldata response: the merge of several decimated tables,
\* the only one, or the table itself
Decimated(t, specs) ==
    LET outs == DecimatedDfs(t, specs) IN
    IF Len(outs) > 1 THEN MergeDecimated(outs)
    ELSE IF Len(outs) = 1 THEN outs[1]
    ELSE [cols |-> ColumnList, df |-> t]

\* ---------------------------------------------------- get_data (256-519)
NoValue ==
    [keys |-> {}, format |-> "", rowcount |-> 0, fullrowcount |-> {}, start |-> 0,
     dataExtraction |-> FALSE, orient |-> "", columns |-> <<>>, data |-> <<>>]
NoWin == [start |-> 0, end |-> 0]

\* the value of an optional argument (a set with one element, or none) or the
\* placeholder when it is None
Opt(arg, placeholder) == IF arg = {} THEN placeholder ELSE CHOOSE x \in arg : TRUE

\* pa.Table.from_pandas, written through an IPC stream writer into a buffer:
\* the bytes of the stream hold the schema and then the rows as one batch
ToPyBytes(data, columns) == <<[bytes |-> "stream", schema |-> columns, batch |-> data]>>

\* _format_data going on without pyarrow
FormatRaises_Never(data_format) == FALSE

\* _format_data raises when Arrow is asked for and pyarrow was not found
FormatRaises(data_format) == data_format = "ARROW" /\ ~has_arrow_module

\* FormatData reporting the number of rows of the window as rowcount
FormatData_CountsTheWindow(data, data_format, columns, orient, start, rowcount, data_extraction, fullrowcount) ==
    [keys |-> {"format", "data"}
              \cup {x \in {"orient"} : data_format = "ARROW"}
              \cup {x \in {"rowcount"} : rowcount # {}}
              \cup {x \in {"fullrowcount"} : fullrowcount # {} /\ fullrowcount # rowcount}
              \cup {x \in {"start"} : start # {}}
              \cup {x \in {"dataExtraction"} : data_extraction # {}},
     format |-> data_format,
     rowcount |-> Len(data),
     fullrowcount |-> IF fullrowcount # rowcount THEN fullrowcount ELSE {},
     start |-> Opt(start, 0),
     dataExtraction |-> Opt(data_extraction, FALSE),
     orient |-> orient, columns |-> columns,
     data |-> IF data_format = "ARROW" THEN ToPyBytes(data, columns) ELSE data]

\* FormatData setting the start key whether a start was given or not
FormatData_AlwaysStart(data, data_format, columns, orient, start, rowcount, data_extraction, fullrowcount) ==
    [keys |-> {"format", "data", "start"}
              \cup {x \in {"orient"} : data_format = "ARROW"}
              \cup {x \in {"rowcount"} : rowcount # {}}
              \cup {x \in {"fullrowcount"} : fullrowcount # {} /\ fullrowcount # rowcount}
              \cup {x \in {"dataExtraction"} : data_extraction # {}},
     format |-> data_format,
     rowcount |-> Opt(rowcount, 0),
     fullrowcount |-> IF fullrowcount # rowcount THEN fullrowcount ELSE {},
     start |-> Opt(start, 0),
     dataExtraction |-> Opt(data_extraction, FALSE),
     orient |-> orient, columns |-> columns,
     data |-> IF data_format = "ARROW" THEN ToPyBytes(data, columns) ELSE data]

\* FormatData setting fullrowcount whenever it is given
FormatData_AlwaysFull(data, data_format, columns, orient, start, rowcount, data_extraction, fullrowcount) ==
    [keys |-> {"format", "data"}
              \cup {x \in {"orient"} : data_format = "ARROW"}
              \cup {x \in {"rowcount"} : rowcount # {}}
              \cup {x \in {"fullrowcount"} : fullrowcount # {}}
              \cup {x \in {"start"} : start # {}}
              \cup {x \in {"dataExtraction"} : data_extraction # {}},
     format |-> data_format,
     rowcount |-> Opt(rowcount, 0),
     fullrowcount |-> fullrowcount,
     start |-> Opt(start, 0),
     dataExtraction |-> Opt(data_extraction, FALSE),
     orient |-> orient, columns |-> columns,
     data |-> IF data_format = "ARROW" THEN ToPyBytes(data, columns) ELSE data]

\* _format_data: an optional argument is a set, empty for None; the keys
\* rowcount, start and dataExtraction are set for the arguments that are not
\* None, and fullrowcount only when it differs from rowcount; the Arrow
\* format carries the data as bytes and sets the orient key
FormatData(data, data_format, columns, orient, start, rowcount, data_extraction, fullrowcount) ==
    [keys |-> {"format", "data"}
              \cup {x \in {"orient"} : data_format = "ARROW"}
              \cup {x \in {"rowcount"} : rowcount # {}}
              \cup {x \in {"fullrowcount"} : fullrowcount # {} /\ fullrowcount # rowcount}
              \cup {x \in {"start"} : start # {}}
              \cup {x \in {"dataExtraction"} : data_extraction # {}},
     format |-> data_format,
     rowcount |-> Opt(rowcount, 0),
     fullrowcount |-> IF fullrowcount # rowcount THEN fullrowcount ELSE {},
     start |-> Opt(start, 0),
     dataExtraction |-> Opt(data_extraction, FALSE),
     orient |-> orient, columns |-> columns,
     data |-> IF data_format = "ARROW" THEN ToPyBytes(data, columns) ELSE data]

\* is_dataframe_supported taking every table for a supported one
IsDataframeSupported_Always == TRUE

\* is_dataframe_supported: the column headers are not a MultiIndex
IsDataframeSupported == nlevels = 1

\* the list under "columns" of the payload once __get_data has run: a paged
\* call on a supported table appends the index column to a list that has
\* entries and lacks it
ColumnsAfter(p) ==
    IF IsDataframeSupported /\ ~p.alldata /\ p.columns # <<>> /\ "_tp_index" \notin Names(p.columns)
    THEN Append(p.columns, "_tp_index")
    ELSE p.columns

\* the response built from the list as the client sent it
RequestedColumns_BeforeAppend(p) == p.columns

\* the list handed to __build_transferred_cols: the local columns, which is
\* the payload's own list
RequestedColumns(p) == ColumnsAfter(p)

\* __build_transferred_cols: the columns of the frame that the payload
\* lists, or all of them for an empty list
TransferredCols(frame_cols, payload_cols) ==
    IF payload_cols # <<>>
    THEN SelectSeq(frame_cols, LAMBDA c : c \in Names(payload_cols))
    ELSE frame_cols

\* __get_data on table t: the response value, the exception that leaves the
\* call (err), the warnings recorded, and the locals start and end; paged
\* unless the payload asks for alldata.  A table with MultiIndex columns is
\* answered at once with the value {}, an error text and a warning.
GetDataResult(t, p) ==
    LET f == FilterStep(t, p.filters)
        a == Aggregate(f.df, p)
        rowcount == Len(a.df)
        w == Window(p, rowcount)
        data == ILoc(a.df, NewIndexes(a.df, p, w.start, w.end))
        m == Decimated(f.df, p.decimators)
    IN IF ~IsDataframeSupported
       THEN [err |-> "", warns |-> {"multiindex"}, value |-> NoValue, win |-> NoWin]
       ELSE IF f.err # ""
       THEN [err |-> f.err, warns |-> {}, value |-> NoValue, win |-> NoWin]
       ELSE IF FormatRaises(p.format)
       THEN [err |-> "RuntimeError", warns |-> {}, value |-> NoValue, win |-> NoWin]
       ELSE IF ~p.alldata
       THEN [err |-> "",
             warns |-> {x \in {"filter"} : f.warn} \cup {x \in {"aggregate"} : a.warn}
                       \cup {x \in {"start"} : GetStart(p).warn} \cup {x \in {"end"} : GetEnd(p).warn}
                       \cup {x \in {"sort"} : SortWarns(p)},
             value |-> FormatData(data, p.format,
                                  TransferredCols(Append(SelectSeq(ColumnList, LAMBDA c : c \in cols), "_tp_index"),
                                                  RequestedColumns(p)),
                                  "records", {w.start}, {rowcount}, {}, {Len(t)}),
             win |-> w]
       ELSE [err |-> "",
             warns |-> {x \in {"filter"} : f.warn},
             value |-> FormatData(m.df, p.format, TransferredCols(m.cols, RequestedColumns(p)),
                                  "list", {}, {}, {TRUE}, {}),
             win |-> NoWin]

\* ------------------------------------------------------------ the requests
IntVals == (0 - 1)..(MaxRows + Beyond)

StrVals == { <<"1">>, <<"-", "1">>, <<"1", "0">>, <<"x">> }

\* what a client may send as start or end
WindowVals == {Absent} \cup {IntV(n) : n \in IntVals} \cup {StrV(x) : x \in StrVals}

\* a paged request; applies tells that the payload holds a dict under
\* "applies", applied lists its entries, and decimators those of the
\* decimator payload; columns is the list under "columns" and format the
\* data_format argument of the call
Payload(start, end, reverse, orderby, sort, filters, aggregates, applies) ==
    [start |-> start, end |-> end, reverse |-> reverse, orderby |-> orderby, sort |-> sort,
     filters |-> filters, aggregates |-> aggregates, applies |-> applies,
     applied |-> <<>>, alldata |-> FALSE, decimators |-> <<>>,
     columns |-> <<>>, format |-> "JSON"]

SortRequests == { <<"", "">>, <<"k", "asc">>, <<"k", "desc">>, <<"zz", "asc">> }

\* paging requests: every window, mirrored or not, with and without a sort
\* and a group-by
PagePayloads ==
    { Payload(s, e, rv, so[1], so[2], <<>>, ag, ag # <<>>) :
        s \in WindowVals, e \in WindowVals, rv \in BOOLEAN, so \in SortRequests,
        ag \in {<<>>, <<"k">>, <<"zz">>} }

\* ------------------------------------------------------------------ actions
Init ==
    /\ df \in Tables
    /\ payload \in PagePayloads
    /\ op = "request"
    /\ ret = NoValue
    /\ err = ""
    /\ warns = {}
    /\ win = NoWin
    /\ old = df
    /\ ties \in (IF payload.orderby # "" /\ Resolves(payload.orderby) THEN TieOrders ELSE {"kept"})
    /\ cols = Columns
    /\ kind = "DataFrame"
    /\ given = ""
    /\ calls = 0
    /\ nlevels = 1
    /\ has_arrow_module = TRUE
    /\ BesideIdle

\* _PandasDataAccessor.get_data serves the pending request
\* get_data writing the filtered rows back into the caller's table
GetDataCall_FiltersInPlace(p) ==
    /\ calls < MaxCalls
    /\ LET r == GetDataResult(df, p) IN
        /\ ret' = r.value
        /\ err' = r.err
        /\ warns' = r.warns
        /\ win' = r.win
    /\ df' = FilterStep(df, p.filters).df
    /\ op' = "get_data"
    /\ payload' = [p EXCEPT !.columns = ColumnsAfter(p)]
    /\ old' = df
    /\ calls' = calls + 1
    /\ UNCHANGED <<ties, cols, kind, given, nlevels, has_arrow_module>>

\* _PandasDataAccessor.get_data with payload p: every stage (assign, query,
\* groupby, iloc, filter, concat) builds a new frame, so the caller's table
\* stays as it is; the list under "columns" of the payload is the one the
\* call appended to
GetDataCall(p) ==
    /\ calls < MaxCalls
    /\ LET r == GetDataResult(df, p) IN
        /\ ret' = r.value
        /\ err' = r.err
        /\ warns' = r.warns
        /\ win' = r.win
    /\ op' = "get_data"
    /\ payload' = [p EXCEPT !.columns = ColumnsAfter(p)]
    /\ old' = df
    /\ calls' = calls + 1
    /\ UNCHANGED <<df, ties, cols, kind, given, nlevels, has_arrow_module>>

\* get_data serves the pending request
GetData == op = "request" /\ GetDataCall(payload) /\ UNCHANGED beside

Next == GetData

Spec == Init /\ [][Next]_vars

\* ------------------------------------------------- properties of the window
\* a get_data call that returned a response
Served == op = "get_data" /\ err = ""

\* the start and end a request asks for, once read as integers
AskedStart == GetStart(payload).v
AskedEnd == GetEnd(payload).v

\* the table the window is cut from: one row per distinct key when the
\* request groups by "k", else the source table (paging requests do not filter)
GroupsByK == payload.aggregates = <<"k">> /\ payload.applies
WindowedCount == IF GroupsByK THEN Cardinality({df[i].k : i \in 1..Len(df)}) ELSE Len(df)

\* C1 as stated: for every rowcount and every requested start and end, the
\* effective start and end both lie in [0, rowcount-1] and the window holds at
\* most rowcount rows.
C1_AsStated ==
    Served =>
        /\ win.start \in 0..(ret.rowcount - 1)
        /\ win.end \in 0..(ret.rowcount - 1)
        /\ Len(ret.data) <= ret.rowcount

\* C1 amended: the window never holds more than rowcount rows; when rowcount is
\* at least 1 the effective start and end both lie in [0, rowcount-1]; when the
\* table is empty (rowcount 0, where that interval is empty) start is 0, end
\* is -1 and no row is returned.
C1_WindowClamped ==
    Served =>
        /\ Len(ret.data) <= ret.rowcount
        /\ ret.rowcount >= 1 =>
             /\ win.start \in 0..(ret.rowcount - 1)
             /\ win.end \in 0..(ret.rowcount - 1)
        /\ ret.rowcount = 0 => win.start = 0 /\ win.end = 0 - 1 /\ ret.data = <<>>

\* a mirrored request on a table of two rows or more whose start is negative
\* and whose end lies beyond the last row
C1_Witness ==
    /\ Served
    /\ ret.rowcount >= 2
    /\ payload.reverse
    /\ payload.start.t = "int" /\ payload.start.v < 0
    /\ payload.end.t = "int" /\ payload.end.v >= ret.rowcount
    /\ Len(ret.data) = ret.rowcount

\* the same request without the reverse flag
Unmirrored == GetDataResult(df, [payload EXCEPT !.reverse = FALSE])

\* C2: with reverse set the window has as many rows as the window of the same
\* request without reverse, it ends at position N-1-start, where start is the
\* start of the window before mirroring (the requested start when that lies in
\* the table), its last row is the row at that position, and the mirrored
\* start is never negative.
C2_ReverseMirrors ==
    (Served /\ payload.reverse) =>
        LET N == ret.rowcount
            s == Unmirrored.win.start
        IN /\ Len(ret.data) = Len(Unmirrored.value.data)
           /\ win.end = N - 1 - s
           /\ win.start >= 0
           /\ AskedStart \in 0..(N - 1) => win.end = N - 1 - AskedStart
           /\ (Len(ret.data) > 0 /\ payload.orderby = "" /\ payload.aggregates = <<>>) =>
                 ret.data[Len(ret.data)] = df[N - s]

\* the window [0, 1] of a three-row table, mirrored to [1, 2]
C2_Witness ==
    /\ Served
    /\ payload.reverse
    /\ ret.rowcount = 3
    /\ payload.start = IntV(0) /\ payload.end = IntV(1)
    /\ win = [start |-> 1, end |-> 2]
    /\ Len(ret.data) = 2

\* the rows of a sequence, each as often as it occurs
SameRows(a, b) ==
    /\ Len(a) = Len(b)
    /\ \A i \in 1..Len(a) :
          Cardinality({j \in 1..Len(a) : a[j] = a[i]}) = Cardinality({j \in 1..Len(b) : b[j] = a[i]})

\* seq is in the order the request asks for on its orderby column
InOrder(seq) ==
    \A i \in 1..(Len(seq) - 1) :
        IF payload.sort = "desc"
        THEN ~CellLess(seq[i], seq[i + 1], payload.orderby)
        ELSE ~CellLess(seq[i + 1], seq[i], payload.orderby)

\* the rows the same sort returns for the window [a, b]
SortedWindow(a, b) ==
    GetDataResult(df, [payload EXCEPT !.start = IntV(a), !.end = IntV(b), !.reverse = FALSE]).value.data

\* C3: with a resolvable orderby column the rows of the window [start, end] are
\* the rows at positions start..end of the whole table in sorted order
\* (descending when sort is "desc"), and two consecutive disjoint windows that
\* cover the table return every row exactly once.
C3_SortThenWindow ==
    (Served /\ payload.orderby # "" /\ Resolves(payload.orderby)) =>
        LET N == ret.rowcount
            whole == SortedWindow(0, N - 1)
        IN /\ Len(whole) = N
           /\ InOrder(whole)
           /\ ~GroupsByK => SameRows(whole, df)
           /\ ret.data = PySlice(whole, win.start, win.end + 1)
           /\ \A j \in 0..(N - 2) : SortedWindow(0, j) \o SortedWindow(j + 1, N - 1) = whole

\* a sorted window of two rows out of three whose rows are not in table order
C3_Witness ==
    /\ Served
    /\ payload.orderby = "k"
    /\ ret.rowcount = 3
    /\ Len(ret.data) = 2
    /\ win.start = 1
    /\ ret.data[1].idx > ret.data[2].idx
    /\ ret.data # SubSeq(df, 2, 3)

\* C4 as stated: rowcount is the total number of rows whatever the window, and
\* the data holds end - start + 1 rows for an in-range window and all rows
\* when end is -1.
C4_AsStated ==
    Served =>
        /\ ret.rowcount = WindowedCount
        /\ (0 <= AskedStart /\ AskedStart <= AskedEnd /\ AskedEnd < ret.rowcount) =>
              Len(ret.data) = AskedEnd - AskedStart + 1
        /\ AskedEnd = 0 - 1 => Len(ret.data) = ret.rowcount

\* C4 amended: rowcount is the total number of rows (after aggregation)
\* whatever the window; the data holds end - start + 1 rows for an in-range
\* window, and when end is -1 it holds the rows from the start to the last
\* row: all rows when start is 0 or outside the table, rowcount - start
\* rows otherwise.
C4_RowcountAndWindow ==
    Served =>
        /\ ret.rowcount = WindowedCount
        /\ (0 <= AskedStart /\ AskedStart <= AskedEnd /\ AskedEnd < ret.rowcount) =>
              Len(ret.data) = AskedEnd - AskedStart + 1
        /\ AskedEnd = 0 - 1 =>
              Len(ret.data) = IF AskedStart \in 1..(ret.rowcount - 1)
                              THEN ret.rowcount - AskedStart
                              ELSE ret.rowcount

\* start 1 and end -1 on three rows: two rows of data, rowcount 3
C4_Witness ==
    /\ Served
    /\ payload.start = IntV(1)
    /\ payload.end = IntV(0 - 1)
    /\ ret.rowcount = 3
    /\ Len(ret.data) = 2

\* a string of digits with an optional sign
LooksNumeric(v) == v.t = "str" /\ ParseInt(v.s).ok
Unparsable(v) == v.t = "str" /\ ~ParseInt(v.s).ok

\* the request with start and end replaced by a and b
WithWindow(a, b) == [payload EXCEPT !.start = a, !.end = b]

\* C5: a numeric string for start or end gives the response of the same
\* integer; a start or end that does not parse never fails the request, a
\* warning is recorded for it, and start falls back to 0, end to rowcount-1.
C5_StringWindow ==
    op = "get_data" =>
        /\ err = ""
        /\ LooksNumeric(payload.start) =>
              ret = GetDataResult(df, WithWindow(IntV(ParseInt(payload.start.s).v), payload.end)).value
        /\ LooksNumeric(payload.end) =>
              ret = GetDataResult(df, WithWindow(payload.start, IntV(ParseInt(payload.end.s).v))).value
        /\ Unparsable(payload.start) =>
              /\ "start" \in warns
              /\ ret = GetDataResult(df, WithWindow(IntV(0), payload.end)).value
        /\ Unparsable(payload.end) =>
              /\ "end" \in warns
              /\ ret = GetDataResult(df, WithWindow(payload.start, IntV(ret.rowcount - 1))).value

\* ------------------------------------------------------ filtering requests
GoodDate == <<"1", "9", "7", "0", "-", "0", "1", "-", "0", "2", "Z">>
BadDate == <<"1", "9", "7", "0", "-", "1", "3", "-", "0", "1", "Z">>

\* the texts a client filters the "name" column with
NameVals == { <<"A", "B">>, <<"b">>, <<".">> }

NameClauses ==
    { Clause("name", a, StrV(v), mc) :
        a \in {"==", "contains"}, v \in NameVals, mc \in {"absent", "true", "false"} }

OtherClauses ==
    { Clause("k", "==", IntV(1), "absent"),
      Clause("d", "==", StrV(GoodDate), "absent") }

MalformedClauses ==
    { Clause("zz", "==", StrV(<<"b">>), "true"),
      Clause("name", "like", StrV(<<"b">>), "true"),
      Clause("d", "==", StrV(BadDate), "true"),
      NotAMapping }

Clauses == NameClauses \cup OtherClauses \cup MalformedClauses

\* filter lists of one or two clauses, on the whole table (no window, no sort)
FilterPayloads ==
    { Payload(Absent, Absent, FALSE, "", "", fl, <<>>, FALSE) :
        fl \in { <<c>> : c \in Clauses } \cup { <<c1, c2>> : c1 \in Clauses, c2 \in NameClauses } }

InitFilter ==
    /\ df \in Tables
    /\ payload \in FilterPayloads
    /\ op = "request"
    /\ ret = NoValue
    /\ err = ""
    /\ warns = {}
    /\ win = NoWin
    /\ old = df
    /\ ties = "kept"
    /\ cols = Columns
    /\ kind = "DataFrame"
    /\ given = ""
    /\ calls = 0
    /\ nlevels = 1
    /\ has_arrow_module = TRUE
    /\ BesideIdle

SpecFilter == InitFilter /\ [][Next]_vars

\* ------------------------------------------------ properties of the filters
\* the filter list with every missing matchCase key set to mc
WithMatchCase(filters, mc) ==
    [i \in 1..Len(filters) |->
        IF filters[i].map /\ filters[i].mc = "absent"
        THEN [filters[i] EXCEPT !.mc = mc] ELSE filters[i]]

LacksMatchCase == \E i \in 1..Len(payload.filters) : payload.filters[i].mc = "absent" /\ payload.filters[i].map

\* C6 as stated: a clause without a matchCase key is evaluated as a
\* case-sensitive clause (the flag defaults to true).
C6_AsStated ==
    (op = "get_data" /\ LacksMatchCase) =>
        ret = GetDataResult(df, [payload EXCEPT !.filters = WithMatchCase(payload.filters, "true")]).value

\* C6 amended: a clause without a matchCase key is evaluated as a clause whose
\* matchCase is false (the flag defaults to false): an equality clause with a
\* string value on a string column keeps the rows equal to it ignoring case.
C6_DefaultIgnoresCase ==
    (op = "get_data" /\ LacksMatchCase) =>
        /\ ret = GetDataResult(df, [payload EXCEPT !.filters = WithMatchCase(payload.filters, "false")]).value
        /\ err = GetDataResult(df, [payload EXCEPT !.filters = WithMatchCase(payload.filters, "false")]).err
        /\ (Len(payload.filters) = 1 /\ payload.filters[1].col = "name"
                /\ payload.filters[1].action = "==" /\ payload.filters[1].val.t = "str") =>
              ret.data = SelectSeq(df, LAMBDA r : Lower(r.name) = Lower(payload.filters[1].val.s))

\* an equality clause without matchCase that keeps a row whose name differs
\* from the value in case only
C6_Witness ==
    /\ Served
    /\ Len(payload.filters) = 1
    /\ payload.filters[1].mc = "absent"
    /\ payload.filters[1].col = "name"
    /\ payload.filters[1].action = "=="
    /\ \E i \in 1..Len(ret.data) : ret.data[i].name # payload.filters[1].val.s

\* sub occurs in s as a substring, ignoring case
ContainsIgnoringCase(s, sub) ==
    \E off \in 0..(Len(s) - Len(sub)) :
        \A j \in 1..Len(sub) : LowerChar(sub[j]) = LowerChar(s[off + j])

\* an equality or contains clause with matchCase false and a string value on
\* the string column
FoldedClause(fd) ==
    /\ fd.map /\ fd.mc = "false" /\ fd.col = "name" /\ fd.val.t = "str"
    /\ fd.action \in {"==", "contains"}

\* what such a clause is to keep
FoldedKeeps(fd, r) ==
    IF fd.action = "==" THEN Lower(r.name) = Lower(fd.val.s)
    ELSE ContainsIgnoringCase(r.name, fd.val.s)

\* C7: with matchCase false and a string value, an equality clause keeps
\* exactly the rows equal to the value in lower case, a contains clause keeps
\* exactly the rows that contain the value as a substring ignoring case, and
\* a row is kept only if it satisfies every clause of the list.
C7_FoldedFilters ==
    (op = "get_data" /\ Len(payload.filters) > 0
        /\ \A i \in 1..Len(payload.filters) : FoldedClause(payload.filters[i])) =>
        /\ err = ""
        /\ ret.data = SelectSeq(df, LAMBDA r :
                         \A i \in 1..Len(payload.filters) : FoldedKeeps(payload.filters[i], r))

\* a clause no query can be built from or evaluated with
Malformed(fd) ==
    \/ ~fd.map
    \/ ~Resolves(fd.col)
    \/ fd.action \notin CompareOps \cup {"contains"}
    \/ IsDateCol(fd.col) /\ fd.val.t = "str" /\ ~FromIsoFormat(DropLast(fd.val.s)).ok

\* C8: for every malformed filter list get_data does not raise: the filter
\* step is skipped, the table keeps all its rows and a warning is recorded.
C8_MalformedFailsSoft ==
    (op = "get_data" /\ \E i \in 1..Len(payload.filters) : Malformed(payload.filters[i])) =>
        /\ err = ""
        /\ "filter" \in warns
        /\ ret.rowcount = Len(df)
        /\ ret.data = df

\* ------------------------------------- on_edit, on_delete, on_add (548-586)
\* the labels of the DataFrame index
Labels(t) == {t[i].idx : i \in 1..Len(t)}

\* what a caller may hand to an accessor: the two pandas types, a numpy
\* array (served by _NumpyDataAccessor) and a value that is not tabular
ContainerTypes == {"DataFrame", "Series", "ndarray", "dict"}

\* _to_dataframe: a Series becomes a DataFrame, anything else is only cast
ToDataFrame(type) == IF type = "Series" THEN "DataFrame" ELSE type

\* _NumpyDataAccessor.to_pandas: pd.DataFrame(value)
NumpyToPandas(type) == "DataFrame"

\* _from_pandas handing the DataFrame back whatever the type asked for
FromPandas_KeepsTheFrame(data_type) == "DataFrame"

\* _PandasDataAccessor._from_pandas: the first column for a Series, else the
\* DataFrame as it is
FromPandas(data_type) == IF data_type = "Series" THEN "Series" ELSE "DataFrame"

\* _NumpyDataAccessor._from_pandas: to_numpy() for an array, else the delegate
NumpyFromPandas(data_type) ==
    IF data_type = "ndarray" THEN "ndarray" ELSE FromPandas(data_type)

\* the guard accepting a list as row locator
NumericLocator_AcceptsLists(p) == p.index.t \in {"int", "list"}

\* isinstance(payload.get("index"), (int, float)); the numbers of the model
\* are integers
NumericLocator(p) == p.index.t = "int"

\* a row of a table that has the columns cs only
Restrict(r, cs) ==
    [idx |-> r.idx,
     name |-> IF "name" \in cs THEN r.name ELSE <<>>,
     k |-> IF "k" \in cs THEN r.k ELSE 0,
     d |-> IF "d" \in cs THEN r.d ELSE 0,
     na |-> r.na \cap cs]

RestrictAll(t, cs) == [i \in 1..Len(t) |-> Restrict(t[i], cs)]

\* the row with cell col set to the value v
SetCell(r, col, v) ==
    CASE col = "k" -> [r EXCEPT !.k = v.v, !.na = @ \ {"k"}]
      [] col = "name" -> [r EXCEPT !.name = v.s, !.na = @ \ {"name"}]
      [] col = "d" -> [r EXCEPT !.d = v.v, !.na = @ \ {"d"}]

\* df.at[label, col] = value: the cell of the row with that label is
\* overwritten; a label the index does not hold is set with enlargement, which
\* appends a row with that label whose other cells are missing
AtSet(t, label, col, v) ==
    IF label \in Labels(t)
    THEN [i \in 1..Len(t) |-> IF t[i].idx = label THEN SetCell(t[i], col, v) ELSE t[i]]
    ELSE Append(t, SetCell([idx |-> label, name |-> <<>>, k |-> 0, d |-> 0, na |-> Columns], col, v))

\* drop removing the row at the position the label names
Drop_ByPosition(t, label) ==
    [i \in 1..(Len(t) - 1) |-> t[IF i < label + 1 THEN i ELSE i + 1]]

\* df.drop(label): the rows with another label; raises KeyError when no row
\* has the label
Drop(t, label) == SelectSeq(t, LAMBDA r : r.idx # label)

\* the empty string in a cell of the datetime column, whose other cells are
\* ordinals yyyymmdd
BlankDate == 0

\* is_numeric_dtype
IsNumericDtype(dtype) == dtype \in {"int64", "float64"}

\* 0 if is_numeric_dtype(dt) else ""
DefaultCell(c) == IF IsNumericDtype(ColType(c)) THEN IntV(0) ELSE StrV(<<>>)

\* [0 if is_numeric_dtype(dt) else "" for dt in df.dtypes]
DefaultRow ==
    [name |-> DefaultCell("name").s,
     k |-> DefaultCell("k").v,
     d |-> IF DefaultCell("d").t = "str" THEN BlankDate ELSE DefaultCell("d").v]

\* the cells of the row on_add inserts; new_row is <<>> for None
NewRow(new_row) == IF new_row = <<>> THEN DefaultRow ELSE new_row[1]

WithLabel(cells, label, cs) ==
    Restrict([idx |-> label, name |-> cells.name, k |-> cells.k, d |-> cells.d, na |-> {}], cs)

\* pd.concat(..., ignore_index=True): the labels become 0..n-1
\* pd.concat leaving the labels of the pieces as they are
IgnoreIndex_KeepsLabels(t) == t

IgnoreIndex(t) == [i \in 1..Len(t) |-> [t[i] EXCEPT !.idx = i - 1]]

\* df.loc[label] = row: the row with that label is overwritten, and a label
\* the index does not hold is appended
LocSet(t, row) ==
    IF row.idx \in Labels(t)
    THEN [i \in 1..Len(t) |-> IF t[i].idx = row.idx THEN row ELSE t[i]]
    ELSE Append(t, row)

\* df.index = df.index + 1
ShiftIndex(t) == [i \in 1..Len(t) |-> [t[i] EXCEPT !.idx = @ + 1]]

\* sort_index over a table left in the order it had
SortIndex_KeepsOrder(t) == t

\* df.sort_index(): the rows by ascending label (the labels are distinct)
SortIndex(t) ==
    [i \in 1..Len(t) |->
        LET rows == {t[j] : j \in 1..Len(t)} IN
        CHOOSE r \in rows : Cardinality({q \in rows : q.idx < r.idx}) = i - 1]

\* rows_before + new row + rows_after inserting the row one position late
InsertAt_OneLate(t, index, row) ==
    IgnoreIndex(PySlice(t, 0, index + 1) \o <<row>> \o PySlice(t, index + 1, Len(t)))

\* lines 575-579: df.iloc[:index], the new row, df.iloc[index:]
InsertAt(t, index, row) ==
    IgnoreIndex(PySlice(t, 0, index) \o <<row>> \o PySlice(t, index, Len(t)))

\* lines 581-585: the new row gets label -1, every label moves up by one and
\* the rows are sorted by label
Prepend(t, row) == SortIndex(ShiftIndex(LocSet(t, row)))

\* _PandasDataAccessor.on_edit on a value of that type holding table t with
\* columns cs: the exception, the table, its columns and the type returned
PandasOnEdit(t, cs, type, p) ==
    IF ToDataFrame(type) # "DataFrame" \/ ~NumericLocator(p)
    THEN [err |-> "ValueError", df |-> t, cols |-> cs, type |-> type]
    ELSE [err |-> "",
          df |-> RestrictAll(AtSet(t, p.index.v, p.col, p.value), cs \cup {p.col}),
          cols |-> cs \cup {p.col}, type |-> FromPandas(type)]

\* _PandasDataAccessor.on_delete
PandasOnDelete(t, cs, type, p) ==
    IF ToDataFrame(type) # "DataFrame" \/ ~NumericLocator(p)
    THEN [err |-> "ValueError", df |-> t, cols |-> cs, type |-> type]
    ELSE IF p.index.v \notin Labels(t)
         THEN [err |-> "KeyError", df |-> t, cols |-> cs, type |-> type]
         ELSE [err |-> "", df |-> Drop(t, p.index.v), cols |-> cs, type |-> FromPandas(type)]

\* _PandasDataAccessor.on_add: a table without columns is returned as given
PandasOnAdd(t, cs, type, p) ==
    IF ToDataFrame(type) # "DataFrame" \/ ~NumericLocator(p)
    THEN [err |-> "ValueError", df |-> t, cols |-> cs, type |-> type]
    ELSE IF cs # {}
         THEN IF p.index.v > 0
              THEN [err |-> "", cols |-> cs, type |-> FromPandas(type),
                    df |-> InsertAt(t, p.index.v, WithLabel(NewRow(p.new_row), 0, cs))]
              ELSE [err |-> "", cols |-> cs, type |-> FromPandas(type),
                    df |-> Prepend(t, WithLabel(NewRow(p.new_row), 0 - 1, cs))]
         ELSE [err |-> "", df |-> t, cols |-> cs, type |-> type]

\* _PandasBasedDataAccessor.on_edit / on_delete / on_add (44-55), for the
\* outcome r of the delegate's call on to_pandas(value)
Delegated(r, type) ==
    IF r.err = "" THEN [r EXCEPT !.type = NumpyFromPandas(type)] ELSE r

\* the call on the accessor registered for the type of the value
OnEditResult(t, cs, type, p) ==
    IF type = "ndarray"
    THEN Delegated(PandasOnEdit(t, cs, NumpyToPandas(type), p), type)
    ELSE PandasOnEdit(t, cs, type, p)

OnDeleteResult(t, cs, type, p) ==
    IF type = "ndarray"
    THEN Delegated(PandasOnDelete(t, cs, NumpyToPandas(type), p), type)
    ELSE PandasOnDelete(t, cs, type, p)

OnAddResult(t, cs, type, p) ==
    IF type = "ndarray"
    THEN Delegated(PandasOnAdd(t, cs, NumpyToPandas(type), p), type)
    ELSE PandasOnAdd(t, cs, type, p)

\* a list [n] given as row locator
ListV(n) == [t |-> "list", v |-> n, s |-> <<>>]

\* the row locators a client may send: nothing, a string, a list, or an
\* integer from -1 to one past the last initial label
Locators == {Absent, StrV(<<"1">>), ListV(1)} \cup {IntV(n) : n \in (0 - 1)..MaxRows}

\* an edit writes 7 into the cell of column "k"
EditPayloads == { [index |-> i, col |-> "k", value |-> IntV(7), new_row |-> <<>>] : i \in Locators }

DeletePayloads == { [index |-> i, col |-> "", value |-> Absent, new_row |-> <<>>] : i \in Locators }

\* the row an application hands to on_add
GivenRow == [name |-> <<"z">>, k |-> 5, d |-> 19700103]

\* on_add with the payload and the new_row argument (<<>> is None)
AddPayloads ==
    { [index |-> i, col |-> "", value |-> Absent, new_row |-> nr] :
        i \in Locators, nr \in {<<>>, <<GivenRow>>} }

NoPayload == [index |-> Absent, col |-> "", value |-> Absent, new_row |-> <<>>]

\* the tables of the mutation runs start from the rows of one table
BaseRows == <<[name |-> <<"A", "b">>, k |-> 1, d |-> 19700102],
              [name |-> <<"a", "b">>, k |-> 1, d |-> 19700101],
              [name |-> <<"b", ".">>, k |-> 0, d |-> 19700102]>>

InitTables == { MkTable([i \in 1..n |-> BaseRows[((i - 1) % 3) + 1]]) : n \in 0..MaxRows }

\* the values of the initial states: a DataFrame with the three columns or
\* with none, a Series or a one-dimensional array (one column), and a dict
InitValues ==
    { [kind |-> "DataFrame", cols |-> Columns, df |-> t] : t \in InitTables }
    \cup { [kind |-> "DataFrame", cols |-> {}, df |-> <<>>] }
    \cup { [kind |-> kd, cols |-> {"k"}, df |-> RestrictAll(t, {"k"})] :
            kd \in {"Series", "ndarray"}, t \in InitTables }
    \cup { [kind |-> "dict", cols |-> {}, df |-> <<>>] }

InitMut ==
    /\ \E v \in InitValues : df = v.df /\ cols = v.cols /\ kind = v.kind
    /\ payload = NoPayload
    /\ op = "none"
    /\ ret = NoValue
    /\ err = ""
    /\ warns = {}
    /\ win = NoWin
    /\ old = df
    /\ ties = "kept"
    /\ given = ""
    /\ calls = 0
    /\ nlevels = 1
    /\ has_arrow_module = TRUE
    /\ BesideIdle

\* the outcome r of a mutation: the application stores the value returned;
\* a run makes MaxCalls calls at most
Mutation(name, p, r) ==
    /\ calls < MaxCalls
    /\ calls' = calls + 1
    /\ err' = r.err
    /\ df' = r.df
    /\ cols' = r.cols
    /\ kind' = IF r.err = "" THEN r.type ELSE kind
    /\ given' = kind
    /\ op' = name
    /\ payload' = p
    /\ old' = df
    /\ UNCHANGED <<ret, warns, win, ties, nlevels, has_arrow_module>>

OnEdit(p) == Mutation("on_edit", p, OnEditResult(df, cols, kind, p))

OnDelete(p) == Mutation("on_delete", p, OnDeleteResult(df, cols, kind, p))

OnAdd(p) == Mutation("on_add", p, OnAddResult(df, cols, kind, p))

NextMut ==
    \/ \E p \in EditPayloads : OnEdit(p) /\ UNCHANGED beside
    \/ \E p \in DeletePayloads : OnDelete(p) /\ UNCHANGED beside
    \/ \E p \in AddPayloads : OnAdd(p) /\ UNCHANGED beside

SpecMut == InitMut /\ [][NextMut]_vars

\* ------------------------------------------ reads between mutations (588-601)
\* the requests served between mutations: a filter on a number and one
\* on a date, a sort, an aggregation, a mirrored window, and a chart request
\* with two decimators
ReadPayloads ==
    { Payload(Absent, Absent, FALSE, "", "", <<Clause("k", "==", IntV(1), "absent")>>, <<>>, FALSE),
      Payload(Absent, Absent, FALSE, "", "", <<Clause("d", "==", StrV(GoodDate), "absent")>>, <<>>, FALSE),
      Payload(Absent, Absent, FALSE, "k", "desc", <<>>, <<>>, FALSE),
      [Payload(Absent, Absent, FALSE, "", "", <<>>, <<"k">>, TRUE) EXCEPT !.applied = << <<"d", "max">> >>],
      Payload(IntV(1), IntV(1), TRUE, "", "", <<>>, <<>>, FALSE),
      [Payload(Absent, Absent, FALSE, "", "", <<>>, <<>>, FALSE)
         EXCEPT !.alldata = TRUE,
                !.decimators =
                    << [none |-> FALSE, decimator |-> "lttb", x |-> "k", y |-> "d", keep |-> {0}, shift |-> 10],
                       [none |-> FALSE, decimator |-> NoDecimator, x |-> "k", y |-> "name",
                        keep |-> {}, shift |-> 0] >>] }

\* the table holds the three columns with a cell of their dtype in every row
TypedTable ==
    /\ kind = "DataFrame" /\ cols = Columns
    /\ \A i \in 1..Len(df) : df[i].na = {} /\ df[i].d # BlankDate

\* the file to_csv writes: the rows of the table under its column names
CsvFile(t, cs) ==
    [NoValue EXCEPT !.format = "CSV", !.columns = SelectSeq(ColumnList, LAMBDA c : c \in cs), !.data = t]

\* to_csv (588-601): __get_data in alldata mode with an empty payload, whose
\* table is written to a file; a value that is not tabular raises ValueError
ToCsv ==
    /\ calls < MaxCalls
    /\ IF ToDataFrame(IF kind = "ndarray" THEN NumpyToPandas(kind) ELSE kind) # "DataFrame"
       THEN err' = "ValueError" /\ ret' = NoValue
       ELSE err' = "" /\ ret' = CsvFile(Decimated(df, <<>>).df, cols)
    /\ op' = "to_csv"
    /\ payload' = NoPayload
    /\ old' = df
    /\ warns' = {}
    /\ win' = NoWin
    /\ calls' = calls + 1
    /\ UNCHANGED <<df, ties, cols, kind, given, nlevels, has_arrow_module>>

\* the mutations of the reading runs act on the first two positions
ReadLocators == {IntV(0), IntV(1)}

InitRead ==
    /\ \E v \in InitValues : df = v.df /\ cols = v.cols /\ kind = v.kind
    /\ payload = NoPayload
    /\ op = "none"
    /\ ret = NoValue
    /\ err = ""
    /\ warns = {}
    /\ win = NoWin
    /\ old = df
    /\ ties \in TieOrders
    /\ given = ""
    /\ calls = 0
    /\ nlevels = 1
    /\ has_arrow_module = TRUE
    /\ BesideIdle

NextRead ==
    \/ \E p \in ReadPayloads : TypedTable /\ GetDataCall(p) /\ UNCHANGED beside
    \/ ToCsv /\ UNCHANGED beside
    \/ \E p \in {q \in EditPayloads : q.index \in ReadLocators} : OnEdit(p) /\ UNCHANGED beside
    \/ \E p \in {q \in DeletePayloads : q.index \in ReadLocators} : OnDelete(p) /\ UNCHANGED beside
    \/ \E p \in {q \in AddPayloads : q.index \in ReadLocators} : OnAdd(p) /\ UNCHANGED beside

SpecRead == InitRead /\ [][NextRead]_vars

\* --------------------------------------------- properties of the mutations
\* the call had a numeric locator that no row of the table carried
NoSuchRow == payload.index.t = "int" /\ payload.index.v \notin Labels(old)

\* C9: on_edit with a numeric locator that matches no existing row fails with
\* ValueError and leaves the table with the rows it had before the call.
C9_EditMissingRowFails ==
    (op = "on_edit" /\ NoSuchRow) => (err = "ValueError" /\ df = old)

\* C10: on_delete with a numeric locator that matches no existing row raises
\* ValueError, the error on_edit raises for a non-numeric locator, and the
\* table is left unchanged.
C10_DeleteMissingRowFails ==
    (op = "on_delete" /\ NoSuchRow) => (err = "ValueError" /\ df = old)

Mutated == op \in {"on_edit", "on_delete", "on_add"}

\* the locator of the call was missing, a string or a list
BadLocator == payload.index.t \in {"absent", "str", "list"}

\* the value of the call was neither a DataFrame nor a Series (an array
\* reaches the pandas accessor as the DataFrame its own accessor builds)
NotTabular == given = "dict"

\* C11: on_edit, on_delete and on_add each raise ValueError, and leave the
\* table as it was, whenever the row locator is missing or is not a number
\* (a list included) or the value is neither a DataFrame nor a Series; with a
\* numeric locator and a tabular value none of them raises ValueError.
C11_GuardRaises ==
    Mutated =>
        /\ (err = "ValueError") <=> (BadLocator \/ NotTabular)
        /\ err = "ValueError" => (df = old /\ kind = given)

C11_Witness ==
    /\ op = "on_add" /\ payload.index.t = "list" /\ given = "DataFrame"
    /\ err = "ValueError" /\ Len(df) = 2 /\ df = old

\* the cells of a row, without its label
Cells(r) == [name |-> r.name, k |-> r.k, d |-> r.d, na |-> r.na]

\* the cells the row inserted by the last on_add is to hold: the row given,
\* or 0 in the numeric column and the empty string in the others
ExpectedCells ==
    LET c == IF payload.new_row = <<>>
             THEN [name |-> <<>>, k |-> 0, d |-> 0]
             ELSE payload.new_row[1]
    IN [name |-> IF "name" \in cols THEN c.name ELSE <<>>,
        k |-> IF "k" \in cols THEN c.k ELSE 0,
        d |-> IF "d" \in cols THEN c.d ELSE 0,
        na |-> {}]

\* the last call was on_add with that integer locator and it returned
Added == op = "on_add" /\ err = "" /\ payload.index.t = "int"

\* the table is one row longer, the new row is first and the rows of the
\* input follow in their order
Prepended ==
    /\ Len(df) = Len(old) + 1
    /\ Cells(df[1]) = ExpectedCells
    /\ \A i \in 1..Len(old) : Cells(df[i + 1]) = Cells(old[i])

\* the labels of the input increase along the table and none is negative
AscendingLabels(t) ==
    /\ \A i \in 1..Len(t) : t[i].idx >= 0
    /\ \A i, j \in 1..Len(t) : i < j => t[i].idx < t[j].idx

Without(pos) ==
    /\ Len(df) = Len(old) - 1
    /\ \A i \in 1..Len(df) : df[i] = old[IF i < pos THEN i ELSE i + 1]

\* C14: on_delete with a locator that identifies an existing row returns the
\* table with exactly that row removed: the row count decreases by one and
\* the other rows keep their values and their order.
C14_DeleteRemovesTheRow ==
    (op = "on_delete" /\ payload.index.t = "int" /\ payload.index.v \in Labels(old)
        /\ ~NotTabular) =>
        /\ err = ""
        /\ \E pos \in 1..Len(old) : old[pos].idx = payload.index.v /\ Without(pos)

C14_Witness ==
    /\ op = "on_delete" /\ err = "" /\ payload.index.v = 2
    /\ Len(old) = 3 /\ old[2].idx = 2 /\ old[1].idx = 0
    /\ Len(df) = 2 /\ df[1] = old[1] /\ df[2] = old[3]

\* C15: on_edit, on_delete and on_add return the container type they were
\* given: a DataFrame for a DataFrame, a Series for a Series, and through the
\* numpy accessor an array for an array.
C15_SameContainer ==
    (Mutated /\ err = "") => (kind = given /\ given \in {"DataFrame", "Series", "ndarray"})

C15_Witness ==
    /\ op = "on_add" /\ err = "" /\ given = "Series" /\ kind = "Series"
    /\ Len(df) = Len(old) + 1 /\ cols = {"k"}

C15_NumpyWitness ==
    op = "on_edit" /\ err = "" /\ given = "ndarray" /\ kind = "ndarray" /\ df # old

\* ---------------------------------------------------------- chart requests
\* longest list of decimator specs of a request
MaxOutputs == 2

\* the x and y columns a chart trace asks for
Axes == { <<"k", "d">>, <<"k", "name">> }

\* the rows a decimator keeps, by position: none, the first, all but the
\* first, or all
KeepSets == { {}, {0}, 1..(MaxRows - 1), 0..(MaxRows - 1) }

\* a decimator hands the cells of "k" back as they are or smoothed
Shifts == {0, 10}

\* the entries of decimatorPayload["decimators"]: None, a trace without a
\* decimator, a trace with the decimator registered as "lttb"
DecimatorSpecs ==
    { [none |-> TRUE, decimator |-> NoDecimator, x |-> "", y |-> "", keep |-> {}, shift |-> 0] }
    \cup { [none |-> FALSE, decimator |-> NoDecimator, x |-> a[1], y |-> a[2], keep |-> {}, shift |-> 0] :
            a \in Axes }
    \cup { [none |-> FALSE, decimator |-> "lttb", x |-> a[1], y |-> a[2], keep |-> ks, shift |-> sh] :
            a \in Axes, ks \in KeepSets, sh \in Shifts }

DecimatorLists == UNION { [1..n -> DecimatorSpecs] : n \in 0..MaxOutputs }

\* a request for the whole table (alldata) or for a page of it
ChartPayloads ==
    { [Payload(Absent, Absent, FALSE, "", "", <<>>, <<>>, FALSE)
         EXCEPT !.alldata = ad, !.decimators = ds] :
        ad \in BOOLEAN, ds \in DecimatorLists }

\* a table with a missing cell in column "k"
WithMissing ==
    LET t == MkTable(<<BaseRows[1], BaseRows[2]>>) IN [t EXCEPT ![2].k = 0, ![2].na = {"k"}]

InitChart ==
    /\ df \in InitTables \cup {WithMissing}
    /\ payload \in ChartPayloads
    /\ op = "request"
    /\ ret = NoValue
    /\ err = ""
    /\ warns = {}
    /\ win = NoWin
    /\ old = df
    /\ ties = "kept"
    /\ cols = Columns
    /\ kind = "DataFrame"
    /\ given = ""
    /\ calls = 0
    /\ nlevels = 1
    /\ has_arrow_module = TRUE
    /\ BesideIdle

SpecChart == InitChart /\ [][Next]_vars

\* ----------------------------------------------- properties of the merge
\* the decimator specs of the request that produce a table
Live == SelectSeq(payload.decimators, LAMBDA s : ~s.none)

\* the table of spec s holds a value in column c for the row at position i
Gives(s, i, c) ==
    /\ s.decimator = NoDecimator \/ (i - 1) \in s.keep
    /\ c \in {s.x, s.y}
    /\ c \notin df[i].na

\* the first spec, in list order, whose table holds such a value
Earliest(i, c) ==
    Live[CHOOSE n \in 1..Len(Live) : Gives(Live[n], i, c) /\ \A m \in 1..(n - 1) : ~Gives(Live[m], i, c)]

\* row r of the response holds in column c the cell of the source row at
\* position i as the table of spec s holds it
HoldsCellOf(r, c, s, i) ==
    CASE c = "k" -> r.k = df[i].k + (IF s.decimator = NoDecimator THEN 0 ELSE s.shift)
      [] c = "name" -> r.name = df[i].name
      [] c = "d" -> r.d = df[i].d

\* C16: when get_data merges the outputs of two or more decimator specs, the
\* merged table has exactly one column per column name, and for a name
\* present in several outputs each row holds the value of the earliest
\* output, in list order, in which that row's value is not missing.
C16_MergeTakesEarliest ==
    (Served /\ payload.alldata /\ Len(Live) >= 2) =>
        /\ \A a, b \in 1..Len(ret.columns) : a # b => ret.columns[a] # ret.columns[b]
        /\ Names(ret.columns) = UNION { {Live[n].x, Live[n].y} : n \in 1..Len(Live) }
        /\ \A j \in 1..Len(ret.data) :
              \E i \in 1..Len(df) :
                 /\ df[i].idx = ret.data[j].idx
                 /\ \A c \in Names(ret.columns) :
                       IF \E n \in 1..Len(Live) : Gives(Live[n], i, c)
                       THEN c \notin ret.data[j].na /\ HoldsCellOf(ret.data[j], c, Earliest(i, c), i)
                       ELSE c \in ret.data[j].na

\* two decimators smooth "k" differently; one row is held by both, another by
\* the second only
C16_Witness ==
    /\ Served /\ payload.alldata /\ Len(Live) = 2
    /\ Live[1].shift = 0 /\ Live[2].shift = 10 /\ Live[1].keep = {0} /\ Live[2].keep = 0..(MaxRows - 1)
    /\ Live[1].y = "d" /\ Live[2].y = "name"
    /\ Len(ret.data) = 2 /\ Len(ret.columns) = 3
    /\ ret.data[1].k = df[1].k /\ ret.data[2].k = df[2].k + 10
    /\ "d" \in ret.data[2].na /\ ret.data[2].name = df[2].name

\* ---------------------------------------------------- aggregation requests
\* the entries of applies: a built-in, the registered callable, a name that
\* is neither, a column the table lacks
AppliesEntries ==
    { <<"d", "max">>, <<"d", "latest">>, <<"d", "nope">>, <<"zz", "max">>,
      <<"k", "first">>, <<"k", "nope">> }

\* applies with no entry, one entry, or two entries on different columns
AppliesLists ==
    {<<>>} \cup { <<e>> : e \in AppliesEntries }
    \cup { <<e1, e2>> : e1 \in {e \in AppliesEntries : e[1] # "k"},
                        e2 \in {e \in AppliesEntries : e[1] = "k"} }

\* requests for the whole table grouped by a column, sorted or not
AggPayloads ==
    { [Payload(Absent, Absent, FALSE, so[1], so[2], <<>>, ag, TRUE) EXCEPT !.applied = ap] :
        so \in { <<"", "">>, <<"k", "desc">> },
        ag \in { <<"k">>, <<"name">>, <<"zz">> },
        ap \in AppliesLists }

InitAgg ==
    /\ df \in Tables
    /\ payload \in AggPayloads
    /\ op = "request"
    /\ ret = NoValue
    /\ err = ""
    /\ warns = {}
    /\ win = NoWin
    /\ old = df
    /\ ties \in (IF payload.orderby # "" THEN TieOrders ELSE {"kept"})
    /\ cols = Columns
    /\ kind = "DataFrame"
    /\ given = ""
    /\ calls = 0
    /\ nlevels = 1
    /\ has_arrow_module = TRUE
    /\ BesideIdle

SpecAgg == InitAgg /\ [][Next]_vars

\* the request asks for an aggregation that cannot be carried out: the
\* group-by column does not exist, or an entry of applies names a function
\* that is neither built-in nor registered, or a column that does not exist
CannotAggregate ==
    /\ payload.aggregates # <<>> /\ payload.applies
    /\ \/ payload.aggregates[1] \notin {"name", "k", "d", "_tp_index"}
       \/ \E i \in 1..Len(payload.applied) :
             \/ payload.applied[i][2] \notin
                   {"count", "sum", "mean", "median", "min", "max", "std", "first", "last", "latest"}
             \/ payload.applied[i][1] \notin {"name", "k", "d", "_tp_index"}

\* C17: when the aggregation cannot be carried out (a group-by column that
\* does not exist, an applies entry naming a function that is neither built-in
\* nor a registered callable), get_data records a warning and goes on with the
\* table as it was before the aggregation: every row of it is served, none
\* reduced.
C17_FailedAggregationKeepsTable ==
    (op = "get_data" /\ CannotAggregate) =>
        /\ err = ""
        /\ "aggregate" \in warns
        /\ ret.rowcount = Len(df)
        /\ SameRows(ret.data, df)
        /\ payload.orderby # "" => InOrder(ret.data)

C17_Witness ==
    /\ Served /\ payload.aggregates = <<"k">>
    /\ payload.applied = << <<"d", "max">>, <<"k", "nope">> >>
    /\ Len(df) = 3 /\ df[1].k = df[2].k /\ df[1].d < df[2].d
    /\ "aggregate" \in warns /\ ret.data = df

C18_PagedWitness ==
    /\ Served /\ ~payload.alldata
    /\ ret.keys = {"format", "data", "rowcount", "start"} /\ ret.rowcount = 3

\* C19: a paged response carries fullrowcount exactly when the number of rows
\* of the table before filtering differs from the rowcount it reports, and
\* then fullrowcount is the number of rows before filtering.
C19_FullRowCount ==
    (Served /\ ~payload.alldata) =>
        /\ "fullrowcount" \in ret.keys <=> Len(df) # ret.rowcount
        /\ ret.fullrowcount = IF Len(df) # ret.rowcount THEN {Len(df)} ELSE {}

C19_Witness ==
    /\ Served /\ Len(payload.filters) = 1 /\ payload.filters[1].col = "name"
    /\ Len(df) = 3 /\ ret.rowcount = 1 /\ ret.fullrowcount = {3} /\ "fullrowcount" \in ret.keys

C19_UnfilteredWitness ==
    /\ Served /\ Len(df) = 2 /\ ret.rowcount = 2 /\ "fullrowcount" \notin ret.keys

C20_CsvWitness ==
    op = "to_csv" /\ err = "" /\ Len(ret.data) = 3 /\ df = old /\ calls = 2

\* ------------------------------------------------- properties of the labels
\* the row labels of t are its row positions 0..n-1
Positional(t) == \A i \in 1..Len(t) : t[i].idx = i - 1

\* the labels of t in row order
LabelsInOrder(t) == [i \in 1..Len(t) |-> t[i].idx]

\* C27: on a table whose row labels are the row positions 0..n-1, on_add (at
\* index 0, below it and at any index k > 0) and on_edit of an existing row
\* return a table whose row labels are again the row positions; on_delete
\* does not renumber: the rows left keep the labels they had.
C27_LabelsFollowPositions ==
    /\ (op = "on_add" /\ err = "" /\ Positional(old)) =>
            /\ Positional(df)
            /\ cols # {} => Len(df) = Len(old) + 1
    /\ (op = "on_edit" /\ err = "" /\ Positional(old) /\ payload.index.v \in Labels(old)) =>
            /\ Positional(df) /\ Len(df) = Len(old)
    /\ (op = "on_delete" /\ err = "") =>
            LabelsInOrder(df) = SelectSeq(LabelsInOrder(old), LAMBDA l : l # payload.index.v)

C27_Witness ==
    /\ op = "on_add" /\ err = "" /\ payload.index = IntV(0) /\ Len(old) = 3 /\ Positional(old)
    /\ Len(df) = 4 /\ Positional(df) /\ df[1].k = GivenRow.k /\ calls = 1

C27_InsertWitness ==
    /\ op = "on_add" /\ err = "" /\ payload.index = IntV(2) /\ Len(old) = 3 /\ Positional(old)
    /\ Len(df) = 4 /\ Positional(df) /\ df[3].k = GivenRow.k

C27_DeleteWitness ==
    /\ op = "on_delete" /\ err = "" /\ payload.index = IntV(0) /\ Len(old) = 3 /\ Positional(old)
    /\ LabelsInOrder(df) = <<1, 2>>

\* ------------------------------------------------- requests issued again
\* what a client may send under "columns"
ColumnLists == { <<>>, <<"name">>, <<"k", "name">>, <<"zz">>, <<"k", "_tp_index">> }

\* the values of _DataFormat
DataFormats == {"JSON", "ARROW"}

RepeatPayloads ==
    { [Payload(w[1], w[2], FALSE, so[1], so[2], fl, <<>>, FALSE)
         EXCEPT !.alldata = ad, !.columns = cl, !.format = fm] :
        w \in {<<Absent, Absent>>, <<IntV(1), IntV(2)>>},
        so \in {<<"", "">>, <<"k", "desc">>},
        fl \in {<<>>, <<Clause("k", "==", IntV(1), "absent")>>},
        ad \in BOOLEAN, cl \in ColumnLists, fm \in DataFormats }

\* a table with one or two levels of column headers, with and without
\* pyarrow installed
InitRepeat ==
    /\ df \in InitTables
    /\ payload \in RepeatPayloads
    /\ op = "request"
    /\ ret = NoValue
    /\ err = ""
    /\ warns = {}
    /\ win = NoWin
    /\ old = df
    /\ ties \in (IF payload.orderby # "" THEN TieOrders ELSE {"kept"})
    /\ cols = Columns
    /\ kind = "DataFrame"
    /\ given = ""
    /\ calls = 0
    /\ nlevels \in 1..2
    /\ has_arrow_module \in BOOLEAN
    /\ BesideIdle

\* the caller hands the payload object of the last call to get_data again
Reissue == op = "get_data" /\ GetDataCall(payload) /\ UNCHANGED beside

NextRepeat == GetData \/ Reissue

SpecRepeat == InitRepeat /\ [][NextRepeat]_vars

\* the last call was a get_data that reached _format_data
Formatted == op = "get_data" /\ nlevels = 1 /\ FilterStep(df, payload.filters).err = ""

\* C21: a get_data request issued again with the same payload object on the
\* unchanged table gets the response of the first call: the same value, the
\* same warnings, the same exception; the first call may have appended the
\* index column to the list under "columns", later calls leave the list.
C21_SameResponseTwice ==
    [][/\ op' = "get_data" =>
            /\ df' = df
            /\ payload'.columns \in {payload.columns, Append(payload.columns, "_tp_index")}
       /\ (op = "get_data" /\ op' = "get_data") =>
            /\ ret' = ret /\ err' = err /\ warns' = warns
            /\ payload' = payload]_vars

C21_Witness ==
    /\ op = "get_data" /\ calls = 2 /\ err = "" /\ Len(df) = 3
    /\ payload.columns = <<"name", "_tp_index">> /\ ret.columns = <<"name", "_tp_index">>
    /\ ret.rowcount = 3

\* C22 as stated: get_data on a table with multi-level column headers does
\* not raise, records a warning and answers with the data of the table.
C22_AsStated ==
    (op = "get_data" /\ nlevels > 1) =>
        /\ err = "" /\ warns # {}
        /\ "data" \in ret.keys

\* C22: get_data on a table with multi-level column headers does not raise
\* and records a warning; the call ends there: the response value is empty,
\* it carries none of the data of the table, and the list under "columns" of
\* the payload is left as it was sent.
C22_MultiIndexIsRefused ==
    (op = "get_data" /\ nlevels > 1) =>
        /\ err = "" /\ warns = {"multiindex"}
        /\ ret = NoValue /\ ret.keys = {}
        /\ payload.columns \in ColumnLists
        /\ df = old

C22_Witness ==
    /\ op = "get_data" /\ nlevels = 2 /\ Len(df) = 3 /\ payload.columns = <<"name">>
    /\ ret = NoValue /\ "multiindex" \in warns

\* C23: a get_data call that reaches the formatting stage with the Arrow
\* format raises RuntimeError when pyarrow was not found, and with pyarrow
\* answers with the data as bytes; with the JSON format it never raises
\* RuntimeError and answers with the rows themselves, with and without
\* pyarrow.
C23_ArrowNeedsPyarrow ==
    Formatted =>
        /\ (payload.format = "ARROW" /\ ~has_arrow_module) => err = "RuntimeError"
        /\ (payload.format = "ARROW" /\ has_arrow_module) =>
                /\ err = "" /\ ret.format = "ARROW"
                /\ Len(ret.data) = 1 /\ ret.data[1].bytes = "stream"
        /\ payload.format = "JSON" =>
                /\ err = "" /\ ret.format = "JSON"
                /\ \A i \in 1..Len(ret.data) : ret.data[i] \in Names(df)

C23_Witness ==
    /\ Formatted /\ payload.format = "ARROW" /\ has_arrow_module /\ ~payload.alldata
    /\ err = "" /\ ret.rowcount = 3 /\ Len(ret.data[1].batch) = 3

C23_MissingWitness ==
    /\ Formatted /\ payload.format = "ARROW" /\ ~has_arrow_module /\ Len(df) = 3
    /\ err = "RuntimeError"

C23_JsonWitness ==
    /\ Formatted /\ payload.format = "JSON" /\ ~has_arrow_module /\ Len(df) = 3
    /\ err = "" /\ Len(ret.data) = 3

\* ------------------------- the pandas-based accessor and its delegate
\* the accessor that _get_instance finds for a DataFrame
PandasAccessor == "_PandasDataAccessor"

Methods == {"get_cols_description", "get_data", "on_edit", "on_delete", "on_add", "to_csv"}

\* get_cols_description of the delegate: the dtype name of every column
GetColsDescription ==
    /\ calls < MaxCalls
    /\ LET cs == SelectSeq(ColumnList, LAMBDA c : c \in cols) IN
        ret' = [NoValue EXCEPT !.columns = cs, !.data = [i \in 1..Len(cs) |-> ColType(cs[i])]]
    /\ op' = "get_cols_description"
    /\ payload' = NoPayload
    /\ err' = ""
    /\ warns' = {}
    /\ win' = NoWin
    /\ old' = df
    /\ calls' = calls + 1
    /\ UNCHANGED <<df, ties, cols, kind, given, nlevels, has_arrow_module>>

\* the callers that are inside a method of the pandas-based accessor
Inside == {t \in Threads : pc[t] # "idle"}

\* a caller enters method m and _get_pandas_accessor tests the field
Enter(t, m) ==
    /\ pc[t] = "idle"
    /\ calls + Cardinality(Inside) < MaxCalls
    /\ pc' = [pc EXCEPT ![t] = IF accessor_instance = None THEN "lookup" ELSE "return"]
    /\ method' = [method EXCEPT ![t] = m]
    /\ UNCHANGED <<accessorvars, accessor_instance, lookups, adaptervars, watchvars, args, result>>

\* the caller found None: it looks the delegate up and stores it
Lookup(t) ==
    /\ pc[t] = "lookup"
    /\ accessor_instance' = PandasAccessor
    /\ lookups' = lookups + 1
    /\ pc' = [pc EXCEPT ![t] = "return"]
    /\ UNCHANGED <<accessorvars, method, adaptervars, watchvars, args, result>>

\* the caller takes the field and calls the method of the delegate on
\* to_pandas(value)
Delegate(t) ==
    /\ pc[t] = "return"
    /\ accessor_instance = PandasAccessor
    /\ pc' = [pc EXCEPT ![t] = "idle"]
    /\ \/ method[t] = "get_cols_description" /\ GetColsDescription
       \/ method[t] = "get_data"
            /\ GetDataCall(Payload(Absent, Absent, FALSE, "", "", <<>>, <<>>, FALSE))
       \/ method[t] = "to_csv" /\ ToCsv
       \/ method[t] = "on_edit" /\ \E p \in {q \in EditPayloads : q.index \in ReadLocators} : OnEdit(p)
       \/ method[t] = "on_delete" /\ \E p \in {q \in DeletePayloads : q.index \in ReadLocators} : OnDelete(p)
       \/ method[t] = "on_add" /\ \E p \in {q \in AddPayloads : q.index \in ReadLocators} : OnAdd(p)
    /\ UNCHANGED <<accessor_instance, lookups, method, adaptervars, watchvars, args, result>>

\* a numpy array handed to the numpy accessor, whose delegate is not yet
\* looked up
InitDelegate ==
    /\ \E v \in {x \in InitValues : x.kind = "ndarray"} : df = v.df /\ cols = v.cols /\ kind = v.kind
    /\ payload = NoPayload
    /\ op = "none"
    /\ ret = NoValue
    /\ err = ""
    /\ warns = {}
    /\ win = NoWin
    /\ old = df
    /\ ties = "kept"
    /\ given = ""
    /\ calls = 0
    /\ nlevels = 1
    /\ has_arrow_module = TRUE
    /\ BesideIdle

\* the calls of the callers interleave in every order
NextDelegate ==
    \/ \E t \in Threads, m \in Methods : Enter(t, m)
    \/ \E t \in Threads : Lookup(t)
    \/ \E t \in Threads : Delegate(t)

SpecDelegate == InitDelegate /\ [][NextDelegate]_vars

\* C26 as stated: over any calls of get_data, on_edit, on_delete, on_add,
\* to_csv and get_cols_description on a pandas-based accessor, overlapping
\* or not, the lookup of the delegate is made at most once.
C26_LookedUpOnce == lookups <= 1

\* ------------------------------------------- the adapter registry (_Adapter)
\* no table and no request: the accessor is not called
AccessorIdle ==
    /\ df = <<>> /\ payload = NoPayload /\ ret = NoValue /\ win = NoWin /\ old = <<>>
    /\ ties = "kept" /\ cols = {} /\ kind = "DataFrame" /\ given = "" /\ calls = 0
    /\ nlevels = 1 /\ has_arrow_module = TRUE

\* most entries of __adapter_for_type in a run
MaxTypes == 3

RECURSIVE Str(_)
\* str(n) of an integer n >= 0, as f"{index}" writes it
Str(n) == IF n < 10 THEN <<DigitChars[n + 1]>> ELSE Str(n \div 10) \o <<DigitChars[(n % 10) + 1]>>

\* the type names an application registers adapters under
TypeNames == { <<"a">>, <<"a", "0">>, <<"a", "0", "1">>, <<"a", "1">>, <<"b">> }

\* the test of the loop taking every name for a free one
Registered_Never(name) == FALSE

\* type_name in self.__adapter_for_type
Registered(name) == name \in DOMAIN adapter_for_type

\* _add_for_type: the entry is set, or set again
AddForType(name, adapter) ==
    /\ op # "call _get_unique_type"
    /\ Registered(name) \/ Cardinality(DOMAIN adapter_for_type) < MaxTypes
    /\ adapter_for_type' = [n \in DOMAIN adapter_for_type \cup {name} |->
                                IF n = name THEN adapter ELSE adapter_for_type[n]]
    /\ op' = "_add_for_type"
    /\ args' = [type_name |-> name, earlier |-> <<>>]
    /\ result' = None
    /\ UNCHANGED <<accessorvars_but_op, delegatevars, watchvars, type_for_variable, type_name, next_index>>

\* _get_unique_type is called: index = 0; earlier holds what the call
\* before returned, when that was a call for the same name with no
\* registration since
GetUniqueTypeCall(name) ==
    /\ op # "call _get_unique_type"
    /\ type_name' = name
    /\ next_index' = 0
    /\ op' = "call _get_unique_type"
    /\ args' = [type_name |-> name,
                earlier |-> IF op = "_get_unique_type" /\ args.type_name = name
                            THEN <<result>> ELSE <<>>]
    /\ result' = None
    /\ UNCHANGED <<accessorvars_but_op, delegatevars, watchvars, adapter_for_type, type_for_variable>>

\* one test of the while loop: a round of the body, or the return
GetUniqueTypeStep ==
    /\ op = "call _get_unique_type"
    /\ IF Registered(type_name)
       THEN /\ type_name' = type_name \o Str(next_index)
            /\ next_index' = next_index + 1
            /\ UNCHANGED <<op, result>>
       ELSE /\ result' = type_name
            /\ op' = "_get_unique_type"
            /\ UNCHANGED <<type_name, next_index>>
    /\ UNCHANGED <<accessorvars_but_op, delegatevars, watchvars, adapter_for_type, type_for_variable, args>>

InitAdapter ==
    /\ AccessorIdle
    /\ BesideIdle
    /\ op = "none" /\ err = "" /\ warns = {}

NextUnique ==
    \/ \E name \in TypeNames : AddForType(name, "labelled")
    \/ \E name \in TypeNames : GetUniqueTypeCall(name)
    \/ GetUniqueTypeStep

\* the loop goes on while it can: no other call is made before it returns
SpecUnique == InitAdapter /\ [][NextUnique]_vars /\ WF_vars(GetUniqueTypeStep)

RECURSIVE Cumulative(_, _)
\* name with the digits of 0, 1, .. n-1 appended one after the other
Cumulative(name, n) == IF n = 0 THEN name ELSE Cumulative(name, n - 1) \o Str(n - 1)

C28_Returned ==
    op = "_get_unique_type" =>
        /\ result \notin DOMAIN adapter_for_type
        /\ \E n \in 0..Cardinality(DOMAIN adapter_for_type) :
                /\ result = Cumulative(args.type_name, n)
                /\ \A j \in 0..(n - 1) : Cumulative(args.type_name, j) \in DOMAIN adapter_for_type
        /\ args.type_name \notin DOMAIN adapter_for_type => result = args.type_name
        /\ args.earlier # <<>> => result = args.earlier[1]

\* C28: _get_unique_type returns for every registry and every type name; the
\* name returned is not registered; it is the given name when that is not
\* registered, else the given name with the digits 0, 1, 2, ... appended one
\* after the other until the name is not registered; a second call for the
\* same name with no registration in between returns the same name.
C28_UniqueType ==
    /\ []C28_Returned
    /\ (op = "call _get_unique_type") ~> (op = "_get_unique_type")

C28_Witness ==
    /\ op = "_get_unique_type" /\ args.type_name = <<"a">>
    /\ DOMAIN adapter_for_type = { <<"a">>, <<"a", "0">>, <<"a", "0", "1">> }
    /\ result = <<"a", "0", "1", "2">> /\ next_index = 3

C28_AgainWitness ==
    /\ op = "_get_unique_type" /\ args.type_name = <<"a">> /\ args.earlier = << <<"a", "0">> >>
    /\ result = <<"a", "0">>

\* --------------------------------------------- _run_for_var (_adapter.py)
\* a Python value: its type name, the characters of a str, the number of
\* an int, the items of a tuple or a list
PyValue(t, str, n, items) == [t |-> t, s |-> str, n |-> n, items |-> items]
PyNone == PyValue("NoneType", <<>>, 0, <<>>)
PyStr(str) == PyValue("str", str, 0, <<>>)
PyInt(n) == PyValue("int", <<>>, n, <<>>)
PyTuple(items) == PyValue("tuple", <<>>, 0, items)
PyList(items) == PyValue("list", <<>>, 0, items)

\* type(value).__name__
TypeName(v) ==
    CASE v.t = "str" -> <<"s", "t", "r">>
      [] v.t = "int" -> <<"i", "n", "t">>
      [] v.t = "tuple" -> <<"t", "u", "p", "l", "e">>
      [] v.t = "list" -> <<"l", "i", "s", "t">>
      [] OTHER -> <<"N", "o", "n", "e", "T", "y", "p", "e">>

\* the adapters an application registers: one that gives (id, label), one
\* that raises, one that gives a number, and one that gives an int value a
\* tree (id, label, [children]) whose children are a str and None
Adapters == {"labelled", "raising", "unlabelled", "tree"}

Raises(adapter) == adapter = "raising"

RECURSIVE GetId(_)
\* __get_id: a str itself, the id of the first item of a tuple or list that
\* has items, else str(value)
GetId(v) ==
    IF v.t = "str" THEN v.s
    ELSE IF v.t \in {"tuple", "list"} /\ Len(v.items) > 0 THEN GetId(v.items[1])
    ELSE IF v.t = "int" THEN Str(v.n)
    ELSE IF v.t = "NoneType" THEN <<"N", "o", "n", "e">>
    ELSE IF v.t = "tuple" THEN <<"(", ")">>
    ELSE <<"[", "]">>

\* what the adapter returns for value v
Adapt(adapter, v) ==
    CASE adapter = "unlabelled" -> PyInt(7)
      [] adapter = "tree" /\ v.t = "int" ->
            PyTuple(<<PyStr(GetId(v)), PyStr(<<"n">>), PyList(<<PyStr(<<"c">>), PyNone>>)>>)
      [] OTHER -> PyTuple(<<PyStr(GetId(v)), PyStr(<<"l">>)>>)

RECURSIVE GetLabel(_)
\* __get_label: a str itself, the label of the second item of a tuple or
\* list of two items or more, else None
GetLabel(v) ==
    IF v.t = "str" THEN v
    ELSE IF v.t \in {"tuple", "list"} /\ Len(v.items) > 1 THEN GetLabel(v.items[2])
    ELSE PyNone

\* __get_children: the third item of a tuple or list, as a list; else None
GetChildren(v) ==
    IF v.t \in {"tuple", "list"} /\ Len(v.items) > 2
    THEN IF v.items[3].t = "list" THEN v.items[3] ELSE PyList(<<v.items[3]>>)
    ELSE PyNone

\* _get_valid_result
GetValidResult(v, id_only) ==
    IF id_only THEN PyStr(GetId(v))
    ELSE IF GetLabel(v) = PyNone THEN PyNone
    ELSE IF GetChildren(v) = PyNone THEN PyTuple(<<PyStr(GetId(v)), GetLabel(v)>>)
    ELSE PyTuple(<<PyStr(GetId(v)), GetLabel(v), GetChildren(v)>>)

RECURSIVE Run(_, _, _)
\* _run: the value returned and whether a warning was given; adapter is
\* None or an adapter; __on_tree runs the adapter on every child and keeps
\* the results that are not None
Run(adapter, v, id_only) ==
    LET adapted == IF adapter # None THEN Adapt(adapter, v) ELSE v
        valid == GetValidResult(adapted, id_only)
        OnTree(tree) ==
            LET rets == [i \in 1..Len(tree) |-> Run(adapter, tree[i], FALSE).ret]
            IN SelectSeq(rets, LAMBDA x : x # PyNone)
    IN IF v = PyNone THEN [ret |-> PyNone, warned |-> FALSE]
       ELSE IF adapter # None /\ Raises(adapter) THEN [ret |-> PyNone, warned |-> TRUE]
       ELSE IF adapter = None /\ v.t = "str" THEN [ret |-> v, warned |-> FALSE]
       ELSE IF valid = PyNone THEN [ret |-> PyNone, warned |-> TRUE]
       ELSE IF ~id_only /\ Len(valid.items) > 2 /\ valid.items[3].t = "list"
               /\ Len(valid.items[3].items) > 0
       THEN [ret |-> PyTuple(<<valid.items[1], valid.items[2],
                               PyList(OnTree(valid.items[3].items))>>),
             warned |-> FALSE]
       ELSE [ret |-> valid, warned |-> FALSE]

\* dict.get: the entry under key, or None
Get(dict, key) == IF key \in DOMAIN dict THEN dict[key] ELSE None

\* __get_for_var looking at the type of the value before the name of the
\* variable
GetForVar_TypeFirst(var_name, v) ==
    IF var_name \in DOMAIN type_for_variable
    THEN Get(adapter_for_type, type_for_variable[var_name])
    ELSE IF TypeName(v) \in DOMAIN adapter_for_type
         THEN adapter_for_type[TypeName(v)]
         ELSE Get(adapter_for_type, var_name)

\* __get_for_var: the adapter of the type registered for the variable, else
\* the adapter registered under the name of the variable, else the adapter
\* of the type of the value; None when there is none
GetForVar(var_name, v) ==
    LET registered == Get(type_for_variable, var_name)
        adapter == IF registered = None THEN Get(adapter_for_type, var_name) ELSE None
        name == IF registered # None THEN registered
                ELSE IF adapter # None THEN var_name ELSE TypeName(v)
    IN IF adapter = None THEN Get(adapter_for_type, name) ELSE adapter

\* the names of the variables bound to a list of values
VarNames == { <<"x">>, <<"y">> }

\* the names adapters are registered under: types and variables
AdapterNames == { <<"T">>, <<"i", "n", "t">>, <<"x">> }

\* the names of types among them
AdapterTypes == { <<"T">>, <<"i", "n", "t">> }

\* most adapters registered in a run of _run_for_var calls
MaxAdapters == 2

\* the values handed to _run_for_var
PyValues ==
    { PyNone, PyStr(<<"s">>), PyInt(5),
      PyTuple(<<PyStr(<<"i">>)>>),
      PyTuple(<<PyStr(<<"i">>), PyStr(<<"l">>)>>),
      PyTuple(<<PyStr(<<"i">>), PyStr(<<"l">>), PyList(<<PyStr(<<"c">>), PyInt(3)>>)>>) }

\* _add_type_for_var
AddTypeForVar(var_name, name) ==
    /\ type_for_variable' = [n \in DOMAIN type_for_variable \cup {var_name} |->
                                 IF n = var_name THEN name ELSE type_for_variable[n]]
    /\ op' = "_add_type_for_var"
    /\ args' = [var_name |-> var_name, type_name |-> name]
    /\ result' = None
    /\ UNCHANGED <<accessorvars_but_op, delegatevars, watchvars, adapter_for_type, type_name, next_index>>

\* _run_for_var: the value _run returns, or the value given when that is
\* None; result also tells the adapter that was used
RunForVar(var_name, v, id_only) ==
    LET adapter == GetForVar(var_name, v)
        r == Run(adapter, v, id_only)
    IN /\ result' = [ret |-> IF r.ret # PyNone THEN r.ret ELSE v, adapter |-> adapter]
       /\ warns' = {x \in {"adapter"} : r.warned}
       /\ err' = ""
       /\ op' = "_run_for_var"
       /\ args' = [var_name |-> var_name, value |-> v, id_only |-> id_only]
       /\ UNCHANGED <<df, payload, ret, win, old, ties, cols, kind, given, calls, nlevels,
                      has_arrow_module, delegatevars, adaptervars, watchvars>>

NextAdapter ==
    \/ \E name \in AdapterNames, a \in Adapters :
            /\ Registered(name) \/ Cardinality(DOMAIN adapter_for_type) < MaxAdapters
            /\ AddForType(name, a)
    \/ \E var \in VarNames, name \in AdapterTypes : AddTypeForVar(var, name)
    \/ \E var \in VarNames, v \in PyValues, id_only \in BOOLEAN : RunForVar(var, v, id_only)

SpecAdapter == InitAdapter /\ [][NextAdapter]_vars

\* the adapter the claim names for the variable and the value of the call
Chosen ==
    IF args.var_name \in DOMAIN type_for_variable
    THEN Get(adapter_for_type, type_for_variable[args.var_name])
    ELSE IF args.var_name \in DOMAIN adapter_for_type
         THEN adapter_for_type[args.var_name]
         ELSE Get(adapter_for_type, TypeName(args.value))

\* the value has a label of its own: a str, or a tuple of two items or more
\* whose second item has one
Labelled(v) == GetLabel(v) # PyNone

\* C29 as stated: _run_for_var never raises; the adapter it uses is the one
\* of the type registered for the variable if there is one, else the one
\* registered under the name of the variable, else the one registered for
\* the type name of the value; when the adapter raises, or what it returns
\* has no valid label, the call returns the value it was given; it returns
\* None only when the value is None.
C29_AsStated ==
    op = "_run_for_var" =>
        /\ err = ""
        /\ result.adapter = Chosen
        /\ (Chosen # None /\ args.value # PyNone
                /\ (Raises(Chosen) \/ ~Labelled(Adapt(Chosen, args.value)))) =>
                result.ret = args.value
        /\ result.ret = PyNone <=> args.value = PyNone

\* C29: _run_for_var never raises; the adapter it uses is the one of the type
\* registered for the variable if a type is registered for it, else the one
\* registered under the name of the variable, else the one registered for
\* the type name of the value; when the adapter raises, or when the whole
\* entry is asked for (id_only is false) and what the adapter returns has no
\* valid label, a warning is given and the call returns the value it was
\* given; when only the id is asked for, no label is looked for and the call
\* returns the id of what the adapter returned; it returns None only when
\* the value is None.
C29_RunForVar ==
    op = "_run_for_var" =>
        /\ err = ""
        /\ result.adapter = Chosen
        /\ (Chosen # None /\ args.value # PyNone
                /\ (Raises(Chosen) \/ (~args.id_only /\ ~Labelled(Adapt(Chosen, args.value))))) =>
                /\ result.ret = args.value
                /\ "adapter" \in warns
        /\ (Chosen # None /\ args.value # PyNone /\ ~Raises(Chosen) /\ args.id_only) =>
                /\ result.ret = PyStr(GetId(Adapt(Chosen, args.value)))
                /\ warns = {}
        /\ result.ret = PyNone <=> args.value = PyNone

C29_Witness ==
    /\ op = "_run_for_var" /\ args.var_name = <<"x">> /\ args.value = PyInt(5) /\ ~args.id_only
    /\ <<"x">> \notin DOMAIN type_for_variable
    /\ <<"x">> \in DOMAIN adapter_for_type /\ adapter_for_type[<<"x">>] = "raising"
    /\ <<"i", "n", "t">> \in DOMAIN adapter_for_type /\ adapter_for_type[<<"i", "n", "t">>] = "labelled"
    /\ result.adapter = "raising" /\ result.ret = PyInt(5) /\ "adapter" \in warns

C29_TypeWitness ==
    /\ op = "_run_for_var" /\ args.var_name = <<"y">> /\ args.value = PyInt(5) /\ ~args.id_only
    /\ <<"y">> \in DOMAIN type_for_variable /\ type_for_variable[<<"y">>] = <<"T">>
    /\ <<"T">> \in DOMAIN adapter_for_type /\ adapter_for_type[<<"T">>] = "tree"
    /\ result.ret = PyTuple(<<PyStr(<<"5">>), PyStr(<<"n">>),
                              PyList(<< PyTuple(<<PyStr(<<"c">>), PyStr(<<"l">>)>>) >>)>>)

C29_NoneWitness ==
    /\ op = "_run_for_var" /\ args.value = PyNone /\ result.ret = PyNone
    /\ result.adapter = "labelled"

\* --------------------------------- FileWatchdogHandler (_renderers/utils.py)
\* timedelta(seconds=1) in ticks of the clock: a tick is half a second
Second == 2

\* the clock stops at MaxTime ticks
MaxTime == 6

\* the file the handler watches
FilePath == "page.md"

\* the paths of the events: the file, the file under another spelling, and
\* another file
SrcPaths == {"page.md", "./page.md", "other.md"}

\* Path(p).resolve()
Resolve(path) == IF path = "./page.md" THEN "page.md" ELSE path

\* a handler that lets every event through
TooSoon_Never(t) == FALSE

\* datetime.now() - self._last_modified < timedelta(seconds=1)
TooSoon(t) == t - last_modified < Second

\* time passes
Tick ==
    /\ now < MaxTime
    /\ now' = now + 1
    /\ UNCHANGED <<accessorvars, delegatevars, adaptervars, last_modified, contents, args, result>>

\* on_modified with an event for path: the clock is read for the test and
\* again, no earlier, for _last_modified; set_content is called for the
\* watched file.  args keeps the event, the time of the test and the state
\* the handler found.
OnModified(path) ==
    /\ op' = "on_modified"
    /\ args' = [src_path |-> path, at |-> now, last_modified |-> last_modified,
                loaded |-> Len(contents)]
    /\ IF TooSoon(now)
       THEN /\ result' = "too soon"
            /\ UNCHANGED <<now, last_modified, contents>>
       ELSE \E t \in now..(IF now < MaxTime THEN now + 1 ELSE now) :
            /\ now' = t
            /\ last_modified' = t
            /\ IF Resolve(path) = Resolve(FilePath)
               THEN contents' = Append(contents, t) /\ result' = "set_content"
               ELSE contents' = contents /\ result' = "another file"
    /\ UNCHANGED <<accessorvars_but_op, delegatevars, adaptervars>>

\* the handler is built at time 0
InitWatch ==
    /\ AccessorIdle
    /\ BesideIdle
    /\ op = "__init__" /\ err = "" /\ warns = {}

NextWatch ==
    \/ Tick
    \/ \E path \in SrcPaths : OnModified(path)

SpecWatch == InitWatch /\ [][NextWatch]_vars

\* C30: any two set_content calls are at least one second apart and none is
\* made within one second of the construction of the handler; an event for
\* any path, the watched file or another, that comes one second or more
\* after the last event let through sets _last_modified anew; an event that
\* comes sooner changes nothing, and the reload it did not make is not made
\* later either: until the next event comes the contents are as they were.
C30_OncePerSecond ==
    /\ \A i, j \in 1..Len(contents) : i < j => contents[j] - contents[i] >= Second
    /\ \A i \in 1..Len(contents) : contents[i] >= Second
    /\ op = "on_modified" =>
        /\ args.at - args.last_modified >= Second =>
                /\ last_modified >= args.at
                /\ Len(contents) = args.loaded + (IF Resolve(args.src_path) = "page.md" THEN 1 ELSE 0)
        /\ args.at - args.last_modified < Second =>
                /\ last_modified = args.last_modified
                /\ Len(contents) = args.loaded

C30_Witness ==
    /\ op = "on_modified" /\ args.src_path = "page.md" /\ result = "too soon"
    /\ args.at = 3 /\ args.last_modified = 2 /\ contents = <<>> /\ now = 5

C30_ReloadWitness ==
    /\ op = "on_modified" /\ result = "set_content" /\ contents = <<2, 4>>

\* ----------------------------- _get_columns_dict (_renderers/utils.py)
\* a column descriptor: the keys it holds and their values
NoDescriptor == [keys |-> {}, index |-> 0, type |-> "", dfid |-> <<>>, format |-> "", tz |-> ""]

\* cols_description of the source, in column order: the dtype names that
\* get_cols_description gives
ColsDescription ==
    << [name |-> <<"n">>, type |-> "object"],
       [name |-> <<"k">>, type |-> "int64"],
       [name |-> <<"d">>, type |-> "datetime64[ns, UTC]"] >>

SourceNames == {ColsDescription[i].name : i \in 1..Len(ColsDescription)}

\* cols_description[col].copy()
Described(col) ==
    LET i == CHOOSE j \in 1..Len(ColsDescription) : ColsDescription[j].name = col
    IN [NoDescriptor EXCEPT !.keys = {"type"}, !.type = ColsDescription[i].type]

\* _RE_PD_TYPE on a dtype name: the name of the type and the timezone in it
RePdType(type) ==
    CASE type = "int64" -> [matches |-> TRUE, name |-> "int", tz |-> ""]
      [] type = "datetime64[ns, UTC]" -> [matches |-> TRUE, name |-> "datetime", tz |-> "UTC"]
      [] OTHER -> [matches |-> FALSE, name |-> type, tz |-> ""]

NumberTypes == {"int", "float"}

\* _get_date_col_str_name
DateColStrName(col) == col \o <<"_", "s", "t", "r">>

RECURSIVE Split(_, _)
\* s.split(sep)
Split(str, sep) ==
    IF \A i \in 1..Len(str) : str[i] # sep THEN <<str>>
    ELSE LET i == CHOOSE j \in 1..Len(str) : str[j] = sep /\ \A h \in 1..(j - 1) : str[h] # sep
         IN <<SubSeq(str, 1, i - 1)>> \o Split(SubSeq(str, i + 1, Len(str)), sep)

RECURSIVE Strip(_)
\* s.strip() on the blanks of the model's alphabet
Strip(str) ==
    IF str # <<>> /\ str[1] = " " THEN Strip(Tail(str))
    ELSE IF str # <<>> /\ str[Len(str)] = " " THEN Strip(SubSeq(str, 1, Len(str) - 1))
    ELSE str

\* dico[key] = value on a mapping from names to descriptors
Put(dico, key, value) == [c \in DOMAIN dico \cup {key} |-> IF c = key THEN value ELSE dico[c]]

RECURSIVE ColumnsDictFromList(_)
\* _get_columns_dict_from_list: the loop over col_list, from its last round
\* back; idx counts the columns found in the source and warned holds the
\* names that were not
ColumnsDictFromList(col_list) ==
    IF col_list = <<>> THEN [col_dict |-> <<>>, idx |-> 0, warned |-> {}]
    ELSE LET before == ColumnsDictFromList(SubSeq(col_list, 1, Len(col_list) - 1))
             col == col_list[Len(col_list)]
         IN IF col \in SourceNames
            THEN [col_dict |-> Put(before.col_dict, col,
                                   [Described(col) EXCEPT !.keys = @ \cup {"index"}, !.index = before.idx]),
                  idx |-> before.idx + 1, warned |-> before.warned]
            ELSE IF col # <<>>
            THEN [before EXCEPT !.warned = @ \cup {col}]
            ELSE before

\* _add_to_dict_and_get(col_dict[col], "format", value)
AddFormat(descriptor, value) ==
    IF "format" \in descriptor.keys THEN descriptor
    ELSE [descriptor EXCEPT !.keys = @ \cup {"format"}, !.format = value]

RECURSIVE Resolved(_, _, _, _)
\* the last loop of _get_columns_dict over the first n columns of the
\* source: type, timezone, format, index and dfid of the columns that
\* col_dict holds; a datetime column goes under its string name
Resolved(col_dict, n, date_format, number_format) ==
    IF n = 0 THEN [col_dict |-> col_dict, idx |-> 0]
    ELSE LET before == Resolved(col_dict, n - 1, date_format, number_format)
             col == ColsDescription[n].name
             re_type == RePdType(ColsDescription[n].type)
             d0 == before.col_dict[col]
             d1 == IF re_type.matches /\ re_type.tz # ""
                   THEN [d0 EXCEPT !.keys = @ \cup {"tz"}, !.tz = re_type.tz] ELSE d0
             d2 == IF re_type.name = "datetime"
                   THEN IF date_format # "" THEN AddFormat(d1, date_format) ELSE d1
                   ELSE IF number_format # "" /\ re_type.name \in NumberTypes
                        THEN AddFormat(d1, number_format) ELSE d1
             d3 == IF "index" \in d2.keys THEN d2
                   ELSE [d2 EXCEPT !.keys = @ \cup {"index"}, !.index = before.idx]
             d4 == [d3 EXCEPT !.keys = @ \cup {"type", "dfid"}, !.type = re_type.name, !.dfid = col]
             key == IF re_type.name = "datetime" THEN DateColStrName(col) ELSE col
         IN IF col \in DOMAIN before.col_dict
            THEN [col_dict |-> Put([c \in DOMAIN before.col_dict \ {col} |-> before.col_dict[c]],
                                   key, d4),
                  idx |-> before.idx + 1]
            ELSE before

\* _get_columns_dict: columns is a str, a list, a tuple, a dict or something
\* else; opt_columns holds one name at most; "" is None for the formats
GetColumnsDict(columns, date_format, number_format, opt_columns) ==
    LET listed == IF columns.form = "str"
                  THEN ColumnsDictFromList([i \in 1..Len(Split(columns.str, ";")) |->
                                                Strip(Split(columns.str, ";")[i])])
                  ELSE ColumnsDictFromList(columns.items)
        col_dict == IF columns.form \in {"str", "list", "tuple"} THEN listed.col_dict
                    ELSE IF columns.form = "dict" THEN columns.dict
                    ELSE <<>>
        warned == IF columns.form \in {"str", "list", "tuple"} THEN listed.warned ELSE {}
        all == [c \in SourceNames |->
                    [NoDescriptor EXCEPT !.keys = {"index"},
                        !.index = (CHOOSE i \in 1..Len(ColsDescription) : ColsDescription[i].name = c) - 1]]
        nb_cols == Cardinality(DOMAIN col_dict)
        opt == {c \in opt_columns : c \in SourceNames /\ c \notin DOMAIN col_dict}
        with_opt == [c \in DOMAIN col_dict \cup opt |->
                        IF c \in DOMAIN col_dict THEN col_dict[c]
                        ELSE [NoDescriptor EXCEPT !.keys = {"index"}, !.index = nb_cols]]
    IN [col_dict |-> Resolved(IF nb_cols = 0 THEN all ELSE with_opt, Len(ColsDescription),
                              date_format, number_format).col_dict,
        warned |-> warned,
        warns |-> {x \in {"column"} : warned # {}}
                  \cup {x \in {"columns"} : columns.form \notin {"str", "list", "tuple", "dict"}}]

\* the column specifications of the pages
ListSpecs ==
    { <<>>, << <<"k">> >>, << <<"n">>, <<"k">> >>, << <<"z">>, <<"k">> >>, << <<"z">> >>,
      << <<"k">>, <<"k">>, <<"n">> >>, << <<"d">>, <<"k">> >> }

StrSpecs ==
    { <<>>, <<"k">>, <<"n", ";", "k">>, <<"n", ";", " ", "k">>, <<"z", ";", "k">>, <<"z">>,
      <<"k", ";", "k", ";", "n">>, <<"d", ";", "k", ";">> }

DictSpecs ==
    LET plain == NoDescriptor
        placed == [NoDescriptor EXCEPT !.keys = {"index"}, !.index = 5]
    IN { <<>>, Put(<<>>, <<"k">>, plain), Put(<<>>, <<"k">>, placed), Put(<<>>, <<"z">>, plain),
         Put(Put(<<>>, <<"k">>, plain), <<"z">>, placed), Put(<<>>, <<"d">>, plain) }

ColumnSpecs ==
    { [form |-> "str", str |-> x, items |-> <<>>, dict |-> <<>>] : x \in StrSpecs }
    \cup { [form |-> f, str |-> <<>>, items |-> x, dict |-> <<>>] : f \in {"list", "tuple"}, x \in ListSpecs }
    \cup { [form |-> "dict", str |-> <<>>, items |-> <<>>, dict |-> x] : x \in DictSpecs }
    \cup { [form |-> "int", str |-> <<>>, items |-> <<>>, dict |-> <<>>] }

\* the columns a specification asks for
Requested(columns) ==
    IF columns.form = "str"
    THEN {Strip(Split(columns.str, ";")[i]) : i \in 1..Len(Split(columns.str, ";"))} \ {<<>>}
    ELSE IF columns.form = "dict" THEN DOMAIN columns.dict
    ELSE {columns.items[i] : i \in 1..Len(columns.items)}

\* no descriptors built yet
InitColumns ==
    /\ AccessorIdle
    /\ BesideIdle
    /\ op = "none" /\ err = "" /\ warns = {}

\* a page builds the descriptors of its columns
GetColumnsDictCall(columns, date_format, number_format, opt_columns) ==
    LET r == GetColumnsDict(columns, date_format, number_format, opt_columns) IN
    /\ op' = "_get_columns_dict"
    /\ args' = [columns |-> columns, date_format |-> date_format,
                number_format |-> number_format, opt_columns |-> opt_columns, warned |-> r.warned]
    /\ result' = r.col_dict
    /\ warns' = r.warns
    /\ err' = ""
    /\ UNCHANGED <<df, payload, ret, win, old, ties, cols, kind, given, calls, nlevels,
                   has_arrow_module, delegatevars, adaptervars, watchvars>>

NextColumns ==
    \E columns \in ColumnSpecs, date_format \in {"", "%Y"}, number_format \in {"", "%.2f"},
       opt_columns \in {{}, {<<"n">>}, {<<"z">>}} :
        GetColumnsDictCall(columns, date_format, number_format, opt_columns)

SpecColumns == InitColumns /\ [][NextColumns]_vars

\* C24 as stated: whatever the form of the column specification (str, list,
\* tuple or dict), a requested column that the source does not have is not
\* in the mapping returned and a warning was given for it; no error is
\* raised.
C24_UnknownColumnsDropped ==
    op = "_get_columns_dict" =>
        /\ err = ""
        /\ \A c \in Requested(args.columns) \ SourceNames :
                c \notin DOMAIN result /\ c \in args.warned

\* C25 as stated: whatever the form of the column specification, every
\* descriptor of the mapping returned holds an index and a dfid that names a
\* column of the source; for a str or a list without duplicates the indexes
\* of the requested columns that the source has are 0, 1, 2, ... in the
\* order of the request.
C25_IndexAndDfid ==
    op = "_get_columns_dict" =>
        /\ \A c \in DOMAIN result :
                {"index", "dfid"} \subseteq result[c].keys /\ result[c].dfid \in SourceNames
        /\ LET listed == IF args.columns.form = "str"
                          THEN [i \in 1..Len(Split(args.columns.str, ";")) |->
                                    Strip(Split(args.columns.str, ";")[i])]
                          ELSE args.columns.items
               found == SelectSeq(listed, LAMBDA c : c \in SourceNames)
           IN (args.columns.form \in {"str", "list"} /\ found # <<>>
                  /\ \A i, j \in 1..Len(listed) : i # j => listed[i] # listed[j]) =>
                \A i \in 1..Len(found) :
                    \E c \in DOMAIN result : result[c].dfid = found[i] /\ result[c].index = i - 1

====
